---- MODULE Spec2Model ----
(***************************************************************************)
(* Career-hub backend: the profile, experience and project services over   *)
(* the relational store, one action per service operation.  A request runs *)
(* to completion inside its session, so an action is one whole handler.    *)
(***************************************************************************)
EXTENDS Integers, Sequences, FiniteSets, TLC

VARIABLES
    profiles,     \* table profiles:    id -> row
    experiences,  \* table experiences: id -> row
    projects,     \* table projects:    id -> row
    next_id,      \* the next identifier the ULID generator hands out
    last          \* the last request and how it ended

vars == <<profiles, experiences, projects, next_id, last>>
store == <<profiles, experiences, projects>>

(***************************************************************************)
(* Bounds of the model: how many identifiers the generator hands out in    *)
(* each specification.                                                     *)
(***************************************************************************)
MaxIds == 3
MaxOwnerIds == 2
MaxScoreIds == 5
MaxDateIds == 3
MaxOrderIds == 4
MaxProjectIds == 4
MaxListIds == 2
MaxListLen == 2
MaxYears == 3
MaxPublicIds == 3
MaxPage == 2
MaxCommitIds == 3
MaxUpdateIds == 3
MaxViewIds == 3
MaxReorderIds == 4
MaxListFrameIds == 3
MaxRaceIds == 2
MaxReorderRaceIds == 3
MaxTicks == 4
MaxScoreRaceIds == 4
MaxSlugLoopIds == 3

(***************************************************************************)
(* Optional values: Python's None and a present value.                     *)
(***************************************************************************)
None == <<>>
Some(v) == <<v>>

(***************************************************************************)
(* Text values are run-length encoded: a sequence of runs [c, n], n >= 1,  *)
(* so that a 150-character summary is one run.  " " is whitespace.         *)
(***************************************************************************)
Run(c, n) == [c |-> c, n |-> n]
Text(c, n) == IF n = 0 THEN <<>> ELSE <<Run(c, n)>>

RECURSIVE StrLen(_)
StrLen(s) == IF s = <<>> THEN 0 ELSE Head(s).n + StrLen(Tail(s))

RECURSIVE LStrip(_)
LStrip(s) == IF s = <<>> THEN <<>>
             ELSE IF Head(s).c = " " THEN LStrip(Tail(s)) ELSE s

RECURSIVE RStrip(_)
RStrip(s) == IF s = <<>> THEN <<>>
             ELSE IF s[Len(s)].c = " " THEN RStrip(SubSeq(s, 1, Len(s) - 1)) ELSE s

\* str.strip()
Strip(s) == RStrip(LStrip(s))

\* Python truthiness of an Optional[str]: None and "" are false.
Truthy(o) == o # None /\ StrLen(o[1]) > 0

Min(a, b) == IF a < b THEN a ELSE b

\* The sequences that enumerate the set S without repetition.
RECURSIVE Perms(_)
Perms(S) ==
    IF S = {} THEN {<<>>}
    ELSE UNION {{<<x>> \o s : s \in Perms(S \ {x})} : x \in S}

(***************************************************************************)
(* Identities.  Users holds the rows of the users table; every caller is   *)
(* an authenticated user.                                                  *)
(***************************************************************************)
Users == {"u1", "u2"}

Visibilities == {"PRIVATE", "FRIENDS", "PUBLIC"}

X == Text("x", 1)
Long == Text("x", 150)

(***************************************************************************)
(* Profile model.                                                          *)
(***************************************************************************)
ExperiencesOf(pid) == {e \in DOMAIN experiences : experiences[e].profile_id = pid}
ProjectsOf(pid) == {j \in DOMAIN projects : projects[j].profile_id = pid}

HeadlineScore == 10
SummaryScore == 20
SummaryMinLen == 100
ExperienceScore == 10
ExperienceCap == 30
ScoreCap == 100

\* calculate_completeness with the experience share left uncapped.
calculate_completeness_uncapped(headline, summary, n) ==
    (IF Truthy(headline) /\ StrLen(Strip(headline[1])) > 0 THEN HeadlineScore ELSE 0)
    + (IF Truthy(summary) /\ StrLen(Strip(summary[1])) > SummaryMinLen
       THEN SummaryScore ELSE 0)
    + n * ExperienceScore

\* Profile.calculate_completeness; n is len(self.experiences).
calculate_completeness(headline, summary, n) ==
    LET s1 == IF Truthy(headline) /\ StrLen(Strip(headline[1])) > 0
              THEN HeadlineScore ELSE 0
        s2 == IF Truthy(summary) /\ StrLen(Strip(summary[1])) > SummaryMinLen
              THEN SummaryScore ELSE 0
        s3 == Min(n * ExperienceScore, ExperienceCap)
    IN  Min(s1 + s2 + s3, ScoreCap)

\* Profile.update_completeness on the row p of the given tables.
update_completeness(p, exps) ==
    [p EXCEPT !.completeness_score =
        calculate_completeness(p.headline, p.summary,
            Cardinality({e \in DOMAIN exps : exps[e].profile_id = p.id}))]

\* can_view that lets everyone see a FRIENDS profile.
can_view_friends_open(p, viewer_user_id) ==
    IF p.visibility = "PUBLIC" THEN TRUE
    ELSE IF p.visibility = "PRIVATE" THEN viewer_user_id = Some(p.user_id)
    ELSE TRUE

\* Profile.can_view
can_view(p, viewer_user_id) ==
    IF p.visibility = "PUBLIC" THEN TRUE
    ELSE IF p.visibility = "PRIVATE" THEN viewer_user_id = Some(p.user_id)
    ELSE viewer_user_id = Some(p.user_id)

(***************************************************************************)
(* Names and explicit slugs are sequences of one-character strings, so     *)
(* that the regular expressions of the code can be applied to them.        *)
(***************************************************************************)
LowerAlpha == {"a", "b", "c", "e", "n", "o"}
Digits == {"1", "2"}

\* str.lower() on one character of the model's alphabet.
Lower(c) == CASE c = "A" -> "a" [] c = "B" -> "b" [] OTHER -> c

RECURSIVE Join(_)
Join(cs) == IF cs = <<>> THEN "" ELSE Head(cs) \o Join(Tail(cs))

RECURSIVE MapLower(_)
MapLower(cs) == IF cs = <<>> THEN <<>> ELSE <<Lower(Head(cs))>> \o MapLower(Tail(cs))

\* re.sub(r"[^a-zA-Z0-9\s-]", "", s)
RECURSIVE KeepSlugChars(_)
KeepSlugChars(cs) ==
    IF cs = <<>> THEN <<>>
    ELSE IF Head(cs) \in LowerAlpha \cup {"A", "B"} \cup Digits \cup {" ", "-"}
         THEN <<Head(cs)>> \o KeepSlugChars(Tail(cs))
         ELSE KeepSlugChars(Tail(cs))

RECURSIVE LStripChars(_)
LStripChars(cs) == IF cs # <<>> /\ Head(cs) = " " THEN LStripChars(Tail(cs)) ELSE cs

RECURSIVE RStripChars(_)
RStripChars(cs) == IF cs # <<>> /\ cs[Len(cs)] = " "
                   THEN RStripChars(SubSeq(cs, 1, Len(cs) - 1)) ELSE cs

\* re.sub(r"\s+", "-", s): every whitespace run becomes one hyphen.
RECURSIVE CollapseSpaces(_)
CollapseSpaces(cs) ==
    IF cs = <<>> THEN <<>>
    ELSE IF Head(cs) = " " THEN <<"-">> \o CollapseSpaces(LStripChars(cs))
         ELSE <<Head(cs)>> \o CollapseSpaces(Tail(cs))

\* Profile.generate_slug on an object whose user relationship and id are as
\* given (None while unset); suffix is the secrets.token_hex(3) drawn.
generate_slug(user, id, suffix) ==
    IF user = None \/ user[1].name = None \/ user[1].name[1] = <<>>
    THEN IF id = None THEN "none" ELSE ToString(id[1])
    ELSE Join(CollapseSpaces(RStripChars(LStripChars(
             KeepSlugChars(MapLower(user[1].name[1])))))) \o "-" \o suffix

\* The display name of a user (the users table is not part of the source).
UserName(user_id) ==
    IF user_id = "u1" THEN <<"A", "b", " ", " ", "c", "!">> ELSE <<"B", "o", "b">>

\* ProfileCreate.validate_slug: ^[a-z0-9-]+$ and at least 3 characters.
validate_slug(v) ==
    v = None \/ (/\ v[1] # <<>>
                 /\ \A i \in 1..Len(v[1]) : v[1][i] \in LowerAlpha \cup Digits \cup {"-"}
                 /\ Len(v[1]) >= 3)

(***************************************************************************)
(* The store's unique constraints on the profiles table: user_id, and slug *)
(* where it is not NULL.                                                   *)
(***************************************************************************)
IntegrityOk(tbl) ==
    \A a, b \in DOMAIN tbl :
        a # b => /\ tbl[a].user_id # tbl[b].user_id
                 /\ (tbl[a].slug # None => tbl[a].slug # tbl[b].slug)

\* What is kept of a request: the operation, whether the caller is someone
\* other than the user of the profile that owns the target (owner is None when
\* the target does not exist), the recorded argument and the outcome.
Request(op, caller, owner, arg, result) ==
    [op |-> op, foreign |-> (owner # None /\ owner # Some(caller)),
     arg |-> arg, result |-> result]

\* A request that raises before any store mutation.
Fail(op, caller, owner, arg, result) ==
    /\ last' = Request(op, caller, owner, arg, result)
    /\ UNCHANGED <<profiles, experiences, projects, next_id>>

EmptyTable == [i \in {} |-> None]
Put(tbl, k, row) == [i \in DOMAIN tbl \cup {k} |-> IF i = k THEN row ELSE tbl[i]]
Drop(tbl, ks) == [i \in DOMAIN tbl \ ks |-> tbl[i]]

\* A payload is a function from the field names the request carries.  In an
\* update payload every value is optional: None (JSON null) or Some(v).
Get(raw, f, default) == IF f \in DOMAIN raw THEN raw[f] ELSE default

\* No NOT NULL column is set to None (the commit would raise IntegrityError).
NotNullOk(update_data, not_null) ==
    \A f \in DOMAIN update_data \cap not_null : update_data[f] # None

\* for field, value in update_data.items(): setattr(row, field, value)
SetAttrs(row, update_data, not_null) ==
    [f \in DOMAIN row |->
        IF f \in DOMAIN update_data
        THEN IF f \in not_null THEN update_data[f][1] ELSE update_data[f]
        ELSE row[f]]

Init ==
    /\ profiles = EmptyTable
    /\ experiences = EmptyTable
    /\ projects = EmptyTable
    /\ next_id = 1
    /\ last = Request("init", "-", None, None, "ok")

(***************************************************************************)
(* Profile service.                                                        *)
(***************************************************************************)
ProfileUpdateFields == {"headline", "summary", "location", "visibility"}

ProfileNotNull == {"visibility"}

\* ProfileBase.validate_visibility
validate_visibility(v) == v \in Visibilities

\* ProfileUpdate.validate_visibility
validate_visibility_update(v) == v = None \/ v[1] \in Visibilities

\* ProfileCreate(**body): validation, then defaults for the fields not sent.
ProfileCreateValid(raw) ==
    /\ validate_visibility(Get(raw, "visibility", "PRIVATE"))
    /\ validate_slug(Get(raw, "slug", None))

ProfileCreate(raw) ==
    [headline   |-> Get(raw, "headline", None),
     summary    |-> Get(raw, "summary", None),
     location   |-> Get(raw, "location", None),
     visibility |-> Get(raw, "visibility", "PRIVATE"),
     slug       |-> IF Get(raw, "slug", None) = None THEN None
                    ELSE Some(Join(raw["slug"][1]))]

\* ProfileUpdate(**body).dict(exclude_unset=True): the declared fields sent.
ProfileUpdateValid(raw) == validate_visibility_update(Get(raw, "visibility", None))
ProfileUpdate(raw) == [f \in DOMAIN raw \cap ProfileUpdateFields |-> raw[f]]

\* A lookup by slug that never finds a row.
SlugTaken_never(slug) == FALSE

\* self.db.query(Profile).filter(Profile.slug == slug).first()
SlugTaken(slug) == \E p \in DOMAIN profiles : profiles[p].slug = Some(slug)

\* The uniqueness loop left out: the slug is used as generated.
EnsureUniqueSlug_noloop(original_slug, slug, counter) == slug

\* The uniqueness loop of create_profile: original, original-1, original-2, ...
RECURSIVE EnsureUniqueSlug(_, _, _)
EnsureUniqueSlug(original_slug, slug, counter) ==
    IF SlugTaken(slug)
    THEN EnsureUniqueSlug(original_slug,
                          original_slug \o "-" \o ToString(counter), counter + 1)
    ELSE slug

\* create_profile without the existing-profile check, on a table that does
\* not declare user_id unique.
create_profile_unchecked(user_id, raw, suffix) ==
    LET arg == [user_id |-> user_id, slug |-> Get(raw, "slug", None)]
        profile_data == ProfileCreate(raw)
        generated == IF profile_data.slug = None
                     THEN generate_slug(None, None, suffix)
                     ELSE profile_data.slug[1]
        slug == EnsureUniqueSlug(generated, generated, 1)
        row == [id |-> next_id, user_id |-> user_id, slug |-> Some(slug),
                headline |-> profile_data.headline, summary |-> profile_data.summary,
                location |-> profile_data.location,
                visibility |-> profile_data.visibility, completeness_score |-> 0]
    IN
    IF ~ProfileCreateValid(raw)
    THEN Fail("create_profile", user_id, None, arg, "ValidationError")
    ELSE IF profile_data.slug # None /\ SlugTaken(profile_data.slug[1])
    THEN Fail("create_profile", user_id, None, arg, "SlugAlreadyExistsError")
    ELSE /\ profiles' = Put(profiles, next_id, update_completeness(row, experiences))
         /\ next_id' = next_id + 1
         /\ last' = Request("create_profile", user_id, None, arg, "ok")
         /\ UNCHANGED <<experiences, projects>>

\* ProfileService.create_profile behind POST /profiles/
create_profile(user_id, raw, suffix) ==
    LET op == "create_profile"
        arg == [user_id |-> user_id, slug |-> Get(raw, "slug", None)]
    IN
    IF ~ProfileCreateValid(raw)
    THEN Fail(op, user_id, None, arg, "ValidationError")
    ELSE IF user_id \notin Users
    THEN Fail(op, user_id, None, arg, "AuthenticationError")
    ELSE IF \E p \in DOMAIN profiles : profiles[p].user_id = user_id
    THEN Fail(op, user_id, None, arg, "ProfileAlreadyExistsError")
    ELSE IF ProfileCreate(raw).slug # None /\ SlugTaken(ProfileCreate(raw).slug[1])
    THEN Fail(op, user_id, None, arg, "SlugAlreadyExistsError")
    ELSE
        LET profile_data == ProfileCreate(raw)
            \* the new object is not in the session: user and id are unset
            generated == IF profile_data.slug = None
                         THEN generate_slug(None, None, suffix)
                         ELSE profile_data.slug[1]
            slug == EnsureUniqueSlug(generated, generated, 1)
            row == [id |-> next_id, user_id |-> user_id, slug |-> Some(slug),
                    headline |-> profile_data.headline,
                    summary |-> profile_data.summary,
                    location |-> profile_data.location,
                    visibility |-> profile_data.visibility,
                    completeness_score |-> 0]
        IN
        /\ IF IntegrityOk(Put(profiles, next_id, row))
           THEN /\ profiles' = Put(profiles, next_id, update_completeness(row, experiences))
                /\ next_id' = next_id + 1
                /\ last' = Request(op, user_id, None, arg, "ok")
                /\ UNCHANGED <<experiences, projects>>
           ELSE Fail(op, user_id, None, arg, "ProfileAlreadyExistsError")

Owner(profile_id) ==
    IF profile_id \in DOMAIN profiles THEN Some(profiles[profile_id].user_id) ELSE None

\* ProfileService.update_profile behind PUT /profiles/{profile_id}
update_profile(profile_id, user_id, raw) ==
    LET op == "update_profile" IN
    IF ~ProfileUpdateValid(raw)
    THEN Fail(op, user_id, Owner(profile_id), raw, "ValidationError")
    ELSE IF profile_id \notin DOMAIN profiles
    THEN Fail(op, user_id, None, raw, "ProfileNotFoundError")
    ELSE IF profiles[profile_id].user_id # user_id
    THEN Fail(op, user_id, Owner(profile_id), raw, "AuthenticationError")
    ELSE IF ~NotNullOk(ProfileUpdate(raw), ProfileNotNull)
    THEN Fail(op, user_id, Owner(profile_id), raw, "SlugAlreadyExistsError")
    ELSE
        LET profile == SetAttrs(profiles[profile_id], ProfileUpdate(raw), ProfileNotNull)
        IN
        IF IntegrityOk(Put(profiles, profile_id, profile))
        THEN /\ profiles' = Put(profiles, profile_id, update_completeness(profile, experiences))
             /\ last' = Request(op, user_id, Owner(profile_id), raw, "ok")
             /\ UNCHANGED <<experiences, projects, next_id>>
        ELSE Fail(op, user_id, Owner(profile_id), raw, "SlugAlreadyExistsError")

\* delete_profile with no cascade to the child tables.
delete_profile_no_cascade(profile_id, user_id) ==
    IF profile_id \notin DOMAIN profiles
    THEN Fail("delete_profile", user_id, None, None, "False")
    ELSE IF profiles[profile_id].user_id # user_id
    THEN Fail("delete_profile", user_id, Owner(profile_id), None, "AuthenticationError")
    ELSE /\ profiles' = Drop(profiles, {profile_id})
         /\ last' = Request("delete_profile", user_id, Owner(profile_id),
                            [experiences |-> Cardinality(ExperiencesOf(profile_id)),
                             projects |-> Cardinality(ProjectsOf(profile_id))], "True")
         /\ UNCHANGED <<experiences, projects, next_id>>

\* ProfileService.delete_profile behind DELETE /profiles/{profile_id}; the
\* relationships cascade the delete to the profile's experiences and projects.
delete_profile(profile_id, user_id) ==
    LET op == "delete_profile" IN
    IF profile_id \notin DOMAIN profiles
    THEN Fail(op, user_id, None, None, "False")
    ELSE IF profiles[profile_id].user_id # user_id
    THEN Fail(op, user_id, Owner(profile_id), None, "AuthenticationError")
    ELSE /\ profiles' = Drop(profiles, {profile_id})
         /\ experiences' = Drop(experiences, ExperiencesOf(profile_id))
         /\ projects' = Drop(projects, ProjectsOf(profile_id))
         /\ last' = Request(op, user_id, Owner(profile_id),
                            [experiences |-> Cardinality(ExperiencesOf(profile_id)),
                             projects |-> Cardinality(ProjectsOf(profile_id))], "True")
         /\ UNCHANGED next_id

\* POST /profiles/{profile_id}/completeness and
\* ProfileService.update_completeness_score
update_completeness_score(profile_id, user_id) ==
    LET op == "update_completeness_score" IN
    IF profile_id \notin DOMAIN profiles
    THEN Fail(op, user_id, None, None, "ProfileNotFoundError")
    ELSE IF profiles[profile_id].user_id # user_id
    THEN Fail(op, user_id, Owner(profile_id), None, "Forbidden")
    ELSE /\ profiles' = Put(profiles, profile_id,
                            update_completeness(profiles[profile_id], experiences))
         /\ last' = Request(op, user_id, Owner(profile_id), None, "ok")
         /\ UNCHANGED <<experiences, projects, next_id>>

\* GET /profiles/{profile_id}: ProfileService.get_profile_by_id, then can_view
get_profile(profile_id, viewer) ==
    LET op == "get_profile" IN
    IF profile_id \notin DOMAIN profiles
    THEN Fail(op, viewer, None, viewer, "NotFound")
    ELSE IF ~can_view(profiles[profile_id], viewer)
    THEN Fail(op, viewer, None, viewer, "Forbidden")
    ELSE Fail(op, viewer, None, viewer, "ok")

\* Profile.is_public
is_public(p) == p.visibility = "PUBLIC"

\* GET /profiles/slug/{slug}: ProfileService.get_profile_by_slug, then
\* is_public; the route takes no caller.
get_profile_by_slug(slug) ==
    LET op == "get_profile_by_slug" IN
    IF ~SlugTaken(slug)
    THEN Fail(op, "-", None, None, "NotFound")
    ELSE LET profile == CHOOSE p \in DOMAIN profiles : profiles[p].slug = Some(slug) IN
         IF ~is_public(profiles[profile])
         THEN Fail(op, "-", None, None, "NotFound")
         ELSE Fail(op, "-", None, None, "ok")

\* The characters of a run-length encoded text, one by one.
RECURSIVE Expand(_)
Expand(s) ==
    IF s = <<>> THEN <<>>
    ELSE [i \in 1..Head(s).n |-> Head(s).c] \o Expand(Tail(s))

\* needle occurs in hay (both character sequences).
Contains(hay, needle) ==
    \E i \in 1..(Len(hay) - Len(needle) + 1) :
        SubSeq(hay, i, i + Len(needle) - 1) = needle

\* column.ilike("%" + query.lower() + "%") for a query without % and _ :
\* a case-insensitive substring test; NULL matches nothing.
ILike(value, query) ==
    value # None /\ Contains(MapLower(Expand(value[1])), MapLower(query))

\* A filter that lets every row through.
PublicRows_all(tbl) == DOMAIN tbl

\* .filter(Profile.visibility == "PUBLIC")
PublicRows(tbl) == {p \in DOMAIN tbl : tbl[p].visibility = "PUBLIC"}

\* ORDER BY completeness_score DESC, created_at DESC; ids are handed out in
\* creation order.
ProfileBefore(a, b) ==
    \/ a.completeness_score > b.completeness_score
    \/ a.completeness_score = b.completeness_score /\ a.id >= b.id

\* .offset(offset).limit(limit) on an ordered result
Page(s, offset, limit) == SubSeq(s, offset + 1, Min(Len(s), offset + limit))

\* ProfileService.get_public_profiles behind GET /profiles/
get_public_profiles(limit, offset) ==
    \E s \in Perms(PublicRows(profiles)) :
        /\ \A i \in 1..(Len(s) - 1) : ProfileBefore(profiles[s[i]], profiles[s[i + 1]])
        /\ Fail("get_public_profiles", "-", None,
                [limit |-> limit, offset |-> offset, ids |-> Page(s, offset, limit)], "ok")

\* ProfileService.search_profiles behind GET /profiles/search/; the result
\* is ordered by completeness_score only, so equal scores come in any order.
search_profiles(query, limit, offset) ==
    \E s \in Perms({p \in PublicRows(profiles) :
                       \/ ILike(profiles[p].headline, query)
                       \/ ILike(profiles[p].summary, query)
                       \/ ILike(profiles[p].location, query)}) :
        /\ \A i \in 1..(Len(s) - 1) :
              profiles[s[i]].completeness_score >= profiles[s[i + 1]].completeness_score
        /\ Fail("search_profiles", "-", None,
                [limit |-> limit, offset |-> offset, ids |-> Page(s, offset, limit)], "ok")

(***************************************************************************)
(* Experience schemas and model.  Dates are day numbers.                   *)
(***************************************************************************)
ExperienceUpdateFields ==
    {"start_date", "end_date", "is_current", "display_order",
     "responsibilities", "technologies"}

\* ExperienceBase.validate_end_date; values holds the fields validated so far.
validate_end_date(v, values) ==
    v = None \/ ~("start_date" \in DOMAIN values /\ v[1] <= values["start_date"])

\* ExperienceBase.validate_current_position
validate_current_position(v, values) ==
    ~(v /\ "end_date" \in DOMAIN values /\ values["end_date"] # None)

\* ExperienceCreate(**body): start_date is required; a validator runs on a
\* field that was sent, after the fields declared before it.
ExperienceCreateValid(raw) ==
    /\ "start_date" \in DOMAIN raw
    /\ "end_date" \in DOMAIN raw =>
           validate_end_date(raw["end_date"], [start_date |-> raw["start_date"]])
    /\ "is_current" \in DOMAIN raw =>
           validate_current_position(raw["is_current"],
               [start_date |-> raw["start_date"],
                end_date |-> Get(raw, "end_date", None)])

ExperienceCreate(raw) ==
    [start_date       |-> raw["start_date"],
     end_date         |-> Get(raw, "end_date", None),
     is_current       |-> Get(raw, "is_current", FALSE),
     responsibilities |-> Get(raw, "responsibilities", <<>>),
     technologies     |-> Get(raw, "technologies", <<>>),
     display_order    |-> Get(raw, "display_order", 0)]

\* ExperienceUpdate(**body).dict(exclude_unset=True): it declares no
\* validator on end_date or is_current.
ExperienceUpdateValid(raw) == TRUE
ExperienceUpdate(raw) == [f \in DOMAIN raw \cap ExperienceUpdateFields |-> raw[f]]

\* Experience.is_date_valid (no service calls it)
is_date_valid(e) == e.end_date = None \/ e.end_date[1] > e.start_date

\* Experience.duration_months for dates given as [year, month]; today is the
\* value of date.today().  None when start_date is unset.
duration_months(start_date, end_date, today) ==
    IF start_date = None THEN None
    ELSE LET end == IF end_date # None THEN end_date[1] ELSE today
             months == (end.year - start_date[1].year) * 12
                       + (end.month - start_date[1].month)
         IN Some(IF months + 1 > 1 THEN months + 1 ELSE 1)

\* duration_text that always writes the plural unit.
duration_text_plural(months) ==
    IF months = None \/ months[1] = 0 THEN "Unknown duration"
    ELSE IF months[1] < 12 THEN ToString(months[1]) \o " months"
    ELSE IF months[1] % 12 = 0 THEN ToString(months[1] \div 12) \o " years"
    ELSE ToString(months[1] \div 12) \o " years " \o ToString(months[1] % 12) \o " months"

\* Experience.duration_text, from the value of self.duration_months
duration_text(months) ==
    IF months = None \/ months[1] = 0 THEN "Unknown duration"
    ELSE IF months[1] < 12
    THEN ToString(months[1]) \o " " \o (IF months[1] = 1 THEN "month" ELSE "months")
    ELSE LET years == months[1] \div 12
             remaining_months == months[1] % 12
         IN IF remaining_months = 0
            THEN ToString(years) \o " " \o (IF years = 1 THEN "year" ELSE "years")
            ELSE ToString(years) \o " " \o (IF years = 1 THEN "year" ELSE "years")
                 \o " " \o ToString(remaining_months) \o " "
                 \o (IF remaining_months = 1 THEN "month" ELSE "months")

\* The duration_text property read on an experience with the given dates.
read_duration_text(start_date, end_date, today) ==
    Fail("duration_text", "-", None,
         [start_date |-> start_date, end_date |-> end_date, today |-> today,
          months |-> duration_months(start_date, end_date, today)],
         duration_text(duration_months(start_date, end_date, today)))

InList(list, v) == \E i \in 1..Len(list) : list[i] = v

RECURSIVE Without(_, _)
Without(list, v) ==
    IF list = <<>> THEN <<>>
    ELSE IF Head(list) = v THEN Without(Tail(list), v)
         ELSE <<Head(list)>> \o Without(Tail(list), v)

\* Experience.add_responsibility / Experience.add_technology on a list
add_item(list, item) ==
    IF StrLen(Strip(item)) > 0 /\ ~InList(list, item)
    THEN list \o <<Strip(item)>> ELSE list

\* Experience.remove_responsibility / Experience.remove_technology on a list
remove_item(list, item) ==
    IF list # <<>> /\ InList(list, item) THEN Without(list, item) ELSE list

(***************************************************************************)
(* Experience service.                                                     *)
(***************************************************************************)
MaxOf(S) == CHOOSE m \in S : \A x \in S : x <= m

ExperienceOwner(experience_id) ==
    IF experience_id \in DOMAIN experiences
    THEN Owner(experiences[experience_id].profile_id) ELSE None

\* The recomputed profile row after a change of the experiences table.
Rescored(profile_id, exps) ==
    Put(profiles, profile_id, update_completeness(profiles[profile_id], exps))

\* ExperienceService.create_experience behind POST /experiences/
create_experience(profile_id, user_id, raw) ==
    LET op == "create_experience" IN
    IF ~ExperienceCreateValid(raw)
    THEN Fail(op, user_id, Owner(profile_id), raw, "ValidationError")
    ELSE IF profile_id \notin DOMAIN profiles
    THEN Fail(op, user_id, None, raw, "AuthenticationError")
    ELSE IF profiles[profile_id].user_id # user_id
    THEN Fail(op, user_id, Owner(profile_id), raw, "AuthenticationError")
    ELSE
        LET experience_data == ExperienceCreate(raw)
            orders == {experiences[e].display_order : e \in ExperiencesOf(profile_id)}
            display_order == IF orders # {} THEN MaxOf(orders) + 1 ELSE 0
            row == [id |-> next_id, profile_id |-> profile_id,
                    start_date |-> experience_data.start_date,
                    end_date |-> experience_data.end_date,
                    is_current |-> experience_data.is_current,
                    responsibilities |-> experience_data.responsibilities,
                    technologies |-> experience_data.technologies,
                    display_order |-> IF experience_data.display_order # 0
                                      THEN experience_data.display_order
                                      ELSE display_order]
            exps == Put(experiences, next_id, row)
        IN
        /\ experiences' = exps
        /\ profiles' = Rescored(profile_id, exps)
        /\ next_id' = next_id + 1
        /\ last' = Request(op, user_id, Owner(profile_id), raw, "ok")
        /\ UNCHANGED projects

\* NOT NULL columns of the experiences table among the updatable ones.
ExperienceNotNull ==
    {"start_date", "is_current", "display_order", "responsibilities", "technologies"}

\* ExperienceService.update_experience behind PUT /experiences/{experience_id}
update_experience(experience_id, user_id, raw) ==
    LET op == "update_experience" IN
    IF ~ExperienceUpdateValid(raw)
    THEN Fail(op, user_id, ExperienceOwner(experience_id), raw, "ValidationError")
    ELSE IF experience_id \notin DOMAIN experiences
    THEN Fail(op, user_id, None, raw, "ExperienceNotFoundError")
    ELSE IF ExperienceOwner(experience_id) # Some(user_id)
    THEN Fail(op, user_id, ExperienceOwner(experience_id), raw, "AuthenticationError")
    ELSE IF ~NotNullOk(ExperienceUpdate(raw), ExperienceNotNull)
    THEN Fail(op, user_id, ExperienceOwner(experience_id), raw, "IntegrityError")
    ELSE
        LET experience == SetAttrs(experiences[experience_id], ExperienceUpdate(raw),
                                   ExperienceNotNull)
            exps == Put(experiences, experience_id, experience)
        IN
        /\ experiences' = exps
        /\ profiles' = Rescored(experience.profile_id, exps)
        /\ last' = Request(op, user_id, ExperienceOwner(experience_id), raw, "ok")
        /\ UNCHANGED <<projects, next_id>>

\* delete_experience that does not recompute the profile's completeness.
delete_experience_stale(experience_id, user_id) ==
    IF experience_id \notin DOMAIN experiences
    THEN Fail("delete_experience", user_id, None, None, "False")
    ELSE IF ExperienceOwner(experience_id) # Some(user_id)
    THEN Fail("delete_experience", user_id, ExperienceOwner(experience_id), None,
              "AuthenticationError")
    ELSE /\ experiences' = Drop(experiences, {experience_id})
         /\ last' = Request("delete_experience", user_id,
                            ExperienceOwner(experience_id), None, "True")
         /\ UNCHANGED <<profiles, projects, next_id>>

\* ExperienceService.delete_experience behind DELETE /experiences/{experience_id}
delete_experience(experience_id, user_id) ==
    LET op == "delete_experience" IN
    IF experience_id \notin DOMAIN experiences
    THEN Fail(op, user_id, None, None, "False")
    ELSE IF ExperienceOwner(experience_id) # Some(user_id)
    THEN Fail(op, user_id, ExperienceOwner(experience_id), None, "AuthenticationError")
    ELSE
        LET exps == Drop(experiences, {experience_id}) IN
        /\ experiences' = exps
        /\ profiles' = Rescored(experiences[experience_id].profile_id, exps)
        /\ last' = Request(op, user_id, ExperienceOwner(experience_id), None, "True")
        /\ UNCHANGED <<projects, next_id>>

\* The reorder loop numbering upwards: display_order = index.
RECURSIVE ReorderExperiences_ascending(_, _, _, _)
ReorderExperiences_ascending(exps, experience_map, experience_ids, i) ==
    IF i >= Len(experience_ids) THEN exps
    ELSE LET experience_id == experience_ids[i + 1] IN
         ReorderExperiences_ascending(
             IF experience_id \in experience_map
             THEN [exps EXCEPT ![experience_id].display_order = i]
             ELSE exps,
             experience_map, experience_ids, i + 1)

\* The loop of reorder_experiences over enumerate(experience_ids), from index i
\* (0-based) on; experience_map holds the ids of the profile's experiences.
RECURSIVE ReorderExperiences(_, _, _, _)
ReorderExperiences(exps, experience_map, experience_ids, i) ==
    IF i >= Len(experience_ids) THEN exps
    ELSE LET experience_id == experience_ids[i + 1] IN
         ReorderExperiences(
             IF experience_id \in experience_map
             THEN [exps EXCEPT ![experience_id].display_order = Len(experience_ids) - i]
             ELSE exps,
             experience_map, experience_ids, i + 1)

\* ExperienceService.reorder_experiences
reorder_experiences(profile_id, user_id, experience_ids) ==
    LET op == "reorder_experiences" IN
    IF Owner(profile_id) # Some(user_id)
    THEN Fail(op, user_id, Owner(profile_id), None, "AuthenticationError")
    ELSE /\ experiences' = ReorderExperiences(experiences, ExperiencesOf(profile_id),
                                              experience_ids, 0)
         /\ last' = Request(op, user_id, Owner(profile_id),
                            [profile_id |-> profile_id, ids |-> experience_ids], "ok")
         /\ UNCHANGED <<profiles, projects, next_id>>

\* ORDER BY display_order DESC, start_date DESC: row a may come before row b.
ExperienceBefore(a, b) ==
    \/ a.display_order > b.display_order
    \/ a.display_order = b.display_order /\ a.start_date >= b.start_date

\* The query of get_experiences_by_profile on table exps: every result the
\* ORDER BY allows (rows that tie on both keys come in either order).
ExperiencesInOrder(exps, profile_id) ==
    {s \in Perms({e \in DOMAIN exps : exps[e].profile_id = profile_id}) :
        \A i \in 1..(Len(s) - 1) : ExperienceBefore(exps[s[i]], exps[s[i + 1]])}

\* get_experiences_by_profile that answers a caller without view access
\* with an empty list.
get_experiences_by_profile_silent(profile_id, user_id) ==
    LET op == "get_experiences_by_profile" IN
    IF profile_id \notin DOMAIN profiles \/ ~can_view(profiles[profile_id], Some(user_id))
    THEN Fail(op, user_id, None, [profile_id |-> profile_id, ids |-> <<>>], "ok")
    ELSE \E s \in ExperiencesInOrder(experiences, profile_id) :
            Fail(op, user_id, None, [profile_id |-> profile_id, ids |-> s], "ok")

\* ExperienceService.get_experiences_by_profile behind
\* GET /experiences/profile/{profile_id}
get_experiences_by_profile(profile_id, user_id) ==
    LET op == "get_experiences_by_profile" IN
    IF profile_id \notin DOMAIN profiles
    THEN Fail(op, user_id, None, [profile_id |-> profile_id, ids |-> <<>>], "ok")
    ELSE IF ~can_view(profiles[profile_id], Some(user_id))
    THEN Fail(op, user_id, None, None, "AuthenticationError")
    ELSE \E s \in ExperiencesInOrder(experiences, profile_id) :
            Fail(op, user_id, None, [profile_id |-> profile_id, ids |-> s], "ok")

\* A list operation that works on both lists of the experience.
ListOp_both(op, experience_id, user_id, field, item, adding) ==
    IF experience_id \notin DOMAIN experiences
    THEN Fail(op, user_id, None, None, "ExperienceNotFoundError")
    ELSE IF ExperienceOwner(experience_id) # Some(user_id)
    THEN Fail(op, user_id, ExperienceOwner(experience_id), None, "AuthenticationError")
    ELSE /\ experiences' =
                [experiences EXCEPT
                    ![experience_id].responsibilities =
                        IF adding THEN add_item(@, item) ELSE remove_item(@, item),
                    ![experience_id].technologies =
                        IF adding THEN add_item(@, item) ELSE remove_item(@, item)]
         /\ last' = Request(op, user_id, ExperienceOwner(experience_id),
                            [id |-> experience_id, item |-> item], "ok")
         /\ UNCHANGED <<profiles, projects, next_id>>

\* The four list operations share one shape: load, check ownership through
\* the profile, change the one list (adding or removing item), commit.
ListOp(op, experience_id, user_id, field, item, adding) ==
    IF experience_id \notin DOMAIN experiences
    THEN Fail(op, user_id, None, None, "ExperienceNotFoundError")
    ELSE IF ExperienceOwner(experience_id) # Some(user_id)
    THEN Fail(op, user_id, ExperienceOwner(experience_id), None, "AuthenticationError")
    ELSE /\ experiences' = [experiences EXCEPT ![experience_id][field] =
                                IF adding
                                THEN add_item(experiences[experience_id][field], item)
                                ELSE remove_item(experiences[experience_id][field], item)]
         /\ last' = Request(op, user_id, ExperienceOwner(experience_id),
                            [id |-> experience_id, item |-> item], "ok")
         /\ UNCHANGED <<profiles, projects, next_id>>

\* ExperienceService.add_responsibility
add_responsibility(experience_id, user_id, responsibility) ==
    ListOp("add_responsibility", experience_id, user_id, "responsibilities",
           responsibility, TRUE)

\* ExperienceService.remove_responsibility
remove_responsibility(experience_id, user_id, responsibility) ==
    ListOp("remove_responsibility", experience_id, user_id, "responsibilities",
           responsibility, FALSE)

\* ExperienceService.add_technology
add_technology(experience_id, user_id, technology) ==
    ListOp("add_technology", experience_id, user_id, "technologies", technology, TRUE)

\* ExperienceService.remove_technology
remove_technology(experience_id, user_id, technology) ==
    ListOp("remove_technology", experience_id, user_id, "technologies", technology, FALSE)

(***************************************************************************)
(* Project schemas and service.                                            *)
(***************************************************************************)
ProjectStatus == {"ACTIVE", "STAGING", "ARCHIVED"}
ProjectUpdateFields == {"name", "status", "client"}
ProjectNotNull == {"name", "status"}

\* ProjectCreate(**body): name is required and not empty, status an enum member.
ProjectCreateValid(raw) ==
    /\ "name" \in DOMAIN raw /\ raw["name"] # ""
    /\ Get(raw, "status", "ACTIVE") \in ProjectStatus

ProjectCreate(raw) ==
    [name |-> raw["name"], status |-> Get(raw, "status", "ACTIVE"),
     client |-> Get(raw, "client", None)]

\* ProjectUpdate(**body).model_dump(exclude_unset=True)
ProjectUpdateValid(raw) ==
    /\ Get(raw, "name", None) # Some("")
    /\ Get(raw, "status", None) = None \/ raw["status"][1] \in ProjectStatus
ProjectUpdate(raw) == [f \in DOMAIN raw \cap ProjectUpdateFields |-> raw[f]]

ProjectOwner(project_id) ==
    IF project_id \in DOMAIN projects
    THEN Owner(projects[project_id].profile_id) ELSE None

\* ProjectService.create_project behind POST /projects/
create_project(profile_id, user_id, raw) ==
    LET op == "create_project" IN
    IF ~ProjectCreateValid(raw)
    THEN Fail(op, user_id, Owner(profile_id), None, "ValidationError")
    ELSE IF Owner(profile_id) # Some(user_id)
    THEN Fail(op, user_id, Owner(profile_id), None, "ProjectNotFoundError")
    ELSE
        LET project_data == ProjectCreate(raw)
            max_order == Cardinality(ProjectsOf(profile_id))
            row == [id |-> next_id, profile_id |-> profile_id,
                    name |-> project_data.name, status |-> project_data.status,
                    client |-> project_data.client,
                    display_order |-> max_order]
        IN
        /\ projects' = Put(projects, next_id, row)
        /\ next_id' = next_id + 1
        /\ last' = Request(op, user_id, Owner(profile_id), None, "ok")
        /\ UNCHANGED <<profiles, experiences>>

\* ProjectService.update_project behind PATCH /projects/{project_id}
update_project(project_id, user_id, raw) ==
    LET op == "update_project" IN
    IF ~ProjectUpdateValid(raw)
    THEN Fail(op, user_id, ProjectOwner(project_id), raw, "ValidationError")
    ELSE IF project_id \notin DOMAIN projects
    THEN Fail(op, user_id, None, raw, "ProjectNotFoundError")
    ELSE IF ProjectOwner(project_id) # Some(user_id)
    THEN Fail(op, user_id, ProjectOwner(project_id), raw, "ProjectNotFoundError")
    ELSE IF ~NotNullOk(ProjectUpdate(raw), ProjectNotNull)
    THEN Fail(op, user_id, ProjectOwner(project_id), raw, "IntegrityError")
    ELSE /\ projects' = Put(projects, project_id,
                            SetAttrs(projects[project_id], ProjectUpdate(raw), ProjectNotNull))
         /\ last' = Request(op, user_id, ProjectOwner(project_id), raw, "ok")
         /\ UNCHANGED <<profiles, experiences, next_id>>

\* delete_project that checks only that the project exists.
delete_project_unchecked(project_id, user_id) ==
    IF project_id \notin DOMAIN projects
    THEN Fail("delete_project", user_id, None, None, "ProjectNotFoundError")
    ELSE /\ projects' = Drop(projects, {project_id})
         /\ last' = Request("delete_project", user_id, ProjectOwner(project_id), None, "ok")
         /\ UNCHANGED <<profiles, experiences, next_id>>

\* ProjectService.delete_project behind DELETE /projects/{project_id}
delete_project(project_id, user_id) ==
    LET op == "delete_project" IN
    IF project_id \notin DOMAIN projects
    THEN Fail(op, user_id, None, None, "ProjectNotFoundError")
    ELSE IF ProjectOwner(project_id) # Some(user_id)
    THEN Fail(op, user_id, ProjectOwner(project_id), None, "ProjectNotFoundError")
    ELSE /\ projects' = Drop(projects, {project_id})
         /\ last' = Request(op, user_id, ProjectOwner(project_id), None, "ok")
         /\ UNCHANGED <<profiles, experiences, next_id>>

\* The project reorder loop numbering downwards: display_order = len - index.
RECURSIVE ReorderProjects_descending(_, _, _, _)
ReorderProjects_descending(projs, profile_id, project_ids, i) ==
    IF i >= Len(project_ids) THEN projs
    ELSE LET project_id == project_ids[i + 1] IN
         ReorderProjects_descending(
             IF project_id \in DOMAIN projs /\ projs[project_id].profile_id = profile_id
             THEN [projs EXCEPT ![project_id].display_order = Len(project_ids) - i]
             ELSE projs,
             profile_id, project_ids, i + 1)

\* The loop without the test that the project is the profile's.
RECURSIVE ReorderProjects_any(_, _, _, _)
ReorderProjects_any(projs, profile_id, project_ids, i) ==
    IF i >= Len(project_ids) THEN projs
    ELSE LET project_id == project_ids[i + 1] IN
         ReorderProjects_any(
             IF project_id \in DOMAIN projs
             THEN [projs EXCEPT ![project_id].display_order = i]
             ELSE projs,
             profile_id, project_ids, i + 1)

\* The loop of reorder_projects over enumerate(project_ids), from index i on.
RECURSIVE ReorderProjects(_, _, _, _)
ReorderProjects(projs, profile_id, project_ids, i) ==
    IF i >= Len(project_ids) THEN projs
    ELSE LET project_id == project_ids[i + 1] IN
         ReorderProjects(
             IF project_id \in DOMAIN projs /\ projs[project_id].profile_id = profile_id
             THEN [projs EXCEPT ![project_id].display_order = i]
             ELSE projs,
             profile_id, project_ids, i + 1)

\* ProjectService.reorder_projects; the request schema wants a non-empty list.
reorder_projects(profile_id, user_id, project_ids) ==
    LET op == "reorder_projects" IN
    IF Len(project_ids) < 1
    THEN Fail(op, user_id, Owner(profile_id), None, "ValidationError")
    ELSE IF Owner(profile_id) # Some(user_id)
    THEN Fail(op, user_id, Owner(profile_id), None, "ProjectNotFoundError")
    ELSE /\ projects' = ReorderProjects(projects, profile_id, project_ids, 0)
         /\ last' = Request(op, user_id, Owner(profile_id),
                            [profile_id |-> profile_id, ids |-> project_ids], "ok")
         /\ UNCHANGED <<profiles, experiences, next_id>>

\* ORDER BY display_order ASC, created_at DESC; ids are handed out in creation
\* order, so the later id is the later created_at.
ProjectBefore(a, b) ==
    \/ a.display_order < b.display_order
    \/ a.display_order = b.display_order /\ a.id >= b.id

\* ProjectService.get_profile_projects on table projs
ProjectsInOrder(projs, profile_id) ==
    {s \in Perms({j \in DOMAIN projs : projs[j].profile_id = profile_id}) :
        \A i \in 1..(Len(s) - 1) : ProjectBefore(projs[s[i]], projs[s[i + 1]])}

\* GET /projects/profile/{profile_id}: 403 unless the profile exists and the
\* caller can view it, then ProjectService.get_profile_projects.
get_profile_projects(profile_id, user_id) ==
    LET op == "get_profile_projects" IN
    IF profile_id \notin DOMAIN profiles \/ ~can_view(profiles[profile_id], Some(user_id))
    THEN Fail(op, user_id, None, None, "Forbidden")
    ELSE \E s \in ProjectsInOrder(projects, profile_id) :
            Fail(op, user_id, None, [profile_id |-> profile_id, ids |-> s], "ok")

(***************************************************************************)
(* The requests the specifications issue.                                  *)
(***************************************************************************)
NoFields == [f \in {} |-> None]
Suffixes == {"a1b2c3"}
Item == Text("p", 1)

\* Ordered id lists of a reorder request: one id, or two successive ids.
IdLists(ids) ==
    {<<a>> : a \in ids} \cup {pair \in ids \X ids : pair[2] = pair[1] + 1}

(***************************************************************************)
(* Spec: the profile store of two users, with the creation and deletion of *)
(* child records.                                                          *)
(***************************************************************************)
ProfileCreateInputs ==
    { NoFields,
      [slug |-> Some(<<"a", "b", "c">>)],
      [slug |-> Some(<<"A", "b">>)] }
ProfileUpdateInputs == { [headline |-> Some(X)] }
ExperienceCreateInputs == { [start_date |-> 1] }
ProjectCreateInputs == { [name |-> "p"] }

CreateProfile ==
    /\ next_id <= MaxIds
    /\ \E u \in Users, raw \in ProfileCreateInputs, sfx \in Suffixes :
          create_profile(u, raw, sfx)
UpdateProfile ==
    \E id \in 1..MaxIds, u \in Users, raw \in ProfileUpdateInputs :
        update_profile(id, u, raw)
DeleteProfile == \E id \in 1..MaxIds, u \in Users : delete_profile(id, u)
UpdateCompletenessScore ==
    \E id \in 1..MaxIds, u \in Users : update_completeness_score(id, u)
CreateExperience ==
    /\ next_id <= MaxIds
    /\ \E id \in 1..MaxIds, u \in Users, raw \in ExperienceCreateInputs :
          create_experience(id, u, raw)
DeleteExperience == \E id \in 1..MaxIds, u \in Users : delete_experience(id, u)
CreateProject ==
    /\ next_id <= MaxIds
    /\ \E id \in 1..MaxIds, u \in Users, raw \in ProjectCreateInputs :
          create_project(id, u, raw)
DeleteProject == \E id \in 1..MaxIds, u \in Users : delete_project(id, u)

Next ==
    \/ CreateProfile
    \/ UpdateProfile
    \/ DeleteProfile
    \/ UpdateCompletenessScore
    \/ CreateExperience
    \/ DeleteExperience
    \/ CreateProject
    \/ DeleteProject

Spec == Init /\ [][Next]_vars

(***************************************************************************)
(* SpecOwner: every mutating operation of the three services, called by    *)
(* the owner and by the other user.                                        *)
(***************************************************************************)
OwnerExperienceUpdateInputs == { [end_date |-> Some(2)] }
OwnerProjectUpdateInputs == { [status |-> Some("ARCHIVED")] }

OwnerCreateProfile ==
    /\ next_id <= MaxOwnerIds
    /\ \E u \in Users, sfx \in Suffixes : create_profile(u, NoFields, sfx)
OwnerUpdateProfile ==
    \E id \in 1..MaxOwnerIds, u \in Users, raw \in ProfileUpdateInputs :
        update_profile(id, u, raw)
OwnerDeleteProfile == \E id \in 1..MaxOwnerIds, u \in Users : delete_profile(id, u)
OwnerCreateExperience ==
    /\ next_id <= MaxOwnerIds
    /\ \E id \in 1..MaxOwnerIds, u \in Users, raw \in ExperienceCreateInputs :
          create_experience(id, u, raw)
OwnerUpdateExperience ==
    \E id \in 1..MaxOwnerIds, u \in Users, raw \in OwnerExperienceUpdateInputs :
        update_experience(id, u, raw)
OwnerDeleteExperience ==
    \E id \in 1..MaxOwnerIds, u \in Users : delete_experience(id, u)
OwnerReorderExperiences ==
    \E id \in 1..MaxOwnerIds, u \in Users, ids \in IdLists(1..MaxOwnerIds) :
        reorder_experiences(id, u, ids)
OwnerAddResponsibility ==
    \E id \in 1..MaxOwnerIds, u \in Users : add_responsibility(id, u, Item)
OwnerRemoveResponsibility ==
    \E id \in 1..MaxOwnerIds, u \in Users : remove_responsibility(id, u, Item)
OwnerAddTechnology ==
    \E id \in 1..MaxOwnerIds, u \in Users : add_technology(id, u, Item)
OwnerRemoveTechnology ==
    \E id \in 1..MaxOwnerIds, u \in Users : remove_technology(id, u, Item)
OwnerCreateProject ==
    /\ next_id <= MaxOwnerIds
    /\ \E id \in 1..MaxOwnerIds, u \in Users, raw \in ProjectCreateInputs :
          create_project(id, u, raw)
OwnerUpdateProject ==
    \E id \in 1..MaxOwnerIds, u \in Users, raw \in OwnerProjectUpdateInputs :
        update_project(id, u, raw)
OwnerDeleteProject == \E id \in 1..MaxOwnerIds, u \in Users : delete_project(id, u)
OwnerReorderProjects ==
    \E id \in 1..MaxOwnerIds, u \in Users, ids \in IdLists(1..MaxOwnerIds) :
        reorder_projects(id, u, ids)

NextOwner ==
    \/ OwnerCreateProfile
    \/ OwnerUpdateProfile
    \/ OwnerDeleteProfile
    \/ OwnerCreateExperience
    \/ OwnerUpdateExperience
    \/ OwnerDeleteExperience
    \/ OwnerReorderExperiences
    \/ OwnerAddResponsibility
    \/ OwnerRemoveResponsibility
    \/ OwnerAddTechnology
    \/ OwnerRemoveTechnology
    \/ OwnerCreateProject
    \/ OwnerUpdateProject
    \/ OwnerDeleteProject
    \/ OwnerReorderProjects

SpecOwner == Init /\ [][NextOwner]_vars

(***************************************************************************)
(* SpecScore: one user's profile, its text fields, visibility and          *)
(* experiences.                                                            *)
(***************************************************************************)
Blank == Text(" ", 1)
Padded == <<Run(" ", 1), Run("x", 100)>>
Viewers == {None} \cup {Some(u) : u \in Users}

ScoreProfileCreateInputs ==
    { NoFields,
      [headline |-> Some(X), summary |-> Some(Long), completeness_score |-> 100] }
ScoreProfileUpdateInputs ==
    { [headline |-> Some(X)],
      [headline |-> Some(Blank)],
      [headline |-> Some(<<>>)],
      [headline |-> None],
      [summary |-> Some(Text("x", 100))],
      [summary |-> Some(Text("x", 101))],
      [summary |-> Some(Padded)],
      [summary |-> Some(Long), completeness_score |-> Some(100)],
      [summary |-> None],
      [visibility |-> Some("PUBLIC")],
      [visibility |-> Some("FRIENDS")],
      [visibility |-> Some("PRIVATE")],
      [visibility |-> Some("SECRET")],
      [visibility |-> None, headline |-> Some(X)] }
ScoreExperienceUpdateInputs == { [end_date |-> None] }

ScoreCreateProfile ==
    /\ next_id <= MaxScoreIds
    /\ \E raw \in ScoreProfileCreateInputs, sfx \in Suffixes :
          create_profile("u1", raw, sfx)
ScoreUpdateProfile ==
    \E id \in DOMAIN profiles, raw \in ScoreProfileUpdateInputs :
        update_profile(id, "u1", raw)
ScoreRecompute == \E id \in DOMAIN profiles : update_completeness_score(id, "u1")
ScoreGetProfile == \E id \in 1..MaxScoreIds, v \in Viewers : get_profile(id, v)
ScoreGetProfileBySlug == \E slug \in {"none", "abc"} : get_profile_by_slug(slug)
ScoreCreateExperience ==
    /\ next_id <= MaxScoreIds
    /\ \E id \in DOMAIN profiles, raw \in ExperienceCreateInputs :
          create_experience(id, "u1", raw)
ScoreUpdateExperience ==
    \E id \in DOMAIN experiences, raw \in ScoreExperienceUpdateInputs :
        update_experience(id, "u1", raw)
ScoreDeleteExperience == \E id \in DOMAIN experiences : delete_experience(id, "u1")

NextScore ==
    \/ ScoreCreateProfile
    \/ ScoreUpdateProfile
    \/ ScoreRecompute
    \/ ScoreGetProfile
    \/ ScoreGetProfileBySlug
    \/ ScoreCreateExperience
    \/ ScoreUpdateExperience
    \/ ScoreDeleteExperience

SpecScore == Init /\ [][NextScore]_vars

(***************************************************************************)
(* SpecDates: one user's experiences and their dates.                      *)
(***************************************************************************)
DateExperienceCreateInputs ==
    { [start_date |-> 1],
      [start_date |-> 1, end_date |-> Some(2)],
      [start_date |-> 1, end_date |-> Some(3)],
      [start_date |-> 2, end_date |-> Some(2)],
      [start_date |-> 2, end_date |-> Some(1)],
      [start_date |-> 1, is_current |-> TRUE],
      [start_date |-> 1, end_date |-> Some(2), is_current |-> TRUE] }
DateExperienceUpdateInputs ==
    { [is_current |-> Some(TRUE)],
      [is_current |-> Some(FALSE)],
      [end_date |-> Some(1)],
      [end_date |-> Some(2)],
      [end_date |-> None],
      [start_date |-> Some(2)],
      [start_date |-> None] }

DateCreateProfile ==
    /\ next_id <= MaxDateIds
    /\ \E sfx \in Suffixes : create_profile("u1", NoFields, sfx)
DateCreateExperience ==
    /\ next_id <= MaxDateIds
    /\ \E id \in DOMAIN profiles, raw \in DateExperienceCreateInputs :
          create_experience(id, "u1", raw)
DateUpdateExperience ==
    \E id \in DOMAIN experiences, raw \in DateExperienceUpdateInputs :
        update_experience(id, "u1", raw)
DateDeleteExperience == \E id \in DOMAIN experiences : delete_experience(id, "u1")

NextDates ==
    \/ DateCreateProfile
    \/ DateCreateExperience
    \/ DateUpdateExperience
    \/ DateDeleteExperience

SpecDates == Init /\ [][NextDates]_vars

(***************************************************************************)
(* SpecOrder: one user's profile and the display order of its experiences. *)
(* SpecProjects: the same for its projects.                                *)
(***************************************************************************)
OrderExperienceCreateInputs ==
    { [start_date |-> 1],
      [start_date |-> 1, display_order |-> 0],
      [start_date |-> 2, display_order |-> 5] }

\* Reorder requests for records S out of the ids: every permutation of S, a
\* single id, and one id twice.
ReorderLists(S, ids) ==
    Perms(S) \cup {<<a>> : a \in ids} \cup {<<a, a>> : a \in ids}

OrderCreateProfile ==
    /\ next_id <= 1
    /\ \E sfx \in Suffixes : create_profile("u1", NoFields, sfx)
OrderCreateExperience ==
    /\ next_id <= MaxOrderIds
    /\ \E id \in DOMAIN profiles, raw \in OrderExperienceCreateInputs :
          create_experience(id, "u1", raw)
OrderDeleteExperience == \E id \in DOMAIN experiences : delete_experience(id, "u1")
OrderReorderExperiences ==
    \E id \in DOMAIN profiles :
        \E ids \in ReorderLists(ExperiencesOf(id), 2..MaxOrderIds) :
            reorder_experiences(id, "u1", ids)
OrderListExperiences ==
    \E id \in DOMAIN profiles : get_experiences_by_profile(id, "u1")

NextOrder ==
    \/ OrderCreateProfile
    \/ OrderCreateExperience
    \/ OrderDeleteExperience
    \/ OrderReorderExperiences
    \/ OrderListExperiences

SpecOrder == Init /\ [][NextOrder]_vars

ProjectsCreateProfile ==
    /\ next_id <= 1
    /\ \E sfx \in Suffixes : create_profile("u1", NoFields, sfx)
ProjectsCreateProject ==
    /\ next_id <= MaxProjectIds
    /\ \E id \in DOMAIN profiles, raw \in ProjectCreateInputs :
          create_project(id, "u1", raw)
ProjectsDeleteProject == \E id \in DOMAIN projects : delete_project(id, "u1")
ProjectsReorderProjects ==
    \E id \in DOMAIN profiles :
        \E ids \in ReorderLists(ProjectsOf(id), 2..MaxProjectIds) :
            reorder_projects(id, "u1", ids)
ProjectsListProjects == \E id \in DOMAIN profiles : get_profile_projects(id, "u1")

NextProjects ==
    \/ ProjectsCreateProfile
    \/ ProjectsCreateProject
    \/ ProjectsDeleteProject
    \/ ProjectsReorderProjects
    \/ ProjectsListProjects

SpecProjects == Init /\ [][NextProjects]_vars

(***************************************************************************)
(* SpecLists: one user's experiences and their responsibility and          *)
(* technology lists.  An add is offered while the list has at most         *)
(* MaxListLen entries.                                                     *)
(***************************************************************************)
OtherItem == Text("q", 1)
PaddedItem == <<Run(" ", 1), Run("p", 1)>>
BlankItem == Text(" ", 1)
ListItems == {Item, OtherItem, PaddedItem, BlankItem, <<>>}

ListsCreateProfile ==
    /\ next_id <= 1
    /\ \E sfx \in Suffixes : create_profile("u1", NoFields, sfx)
ListsCreateExperience ==
    /\ next_id <= MaxListIds
    /\ \E id \in DOMAIN profiles, raw \in ExperienceCreateInputs :
          create_experience(id, "u1", raw)
ListsAddResponsibility ==
    \E id \in DOMAIN experiences, item \in ListItems :
        /\ Len(experiences[id].responsibilities) <= MaxListLen
        /\ add_responsibility(id, "u1", item)
ListsRemoveResponsibility ==
    \E id \in DOMAIN experiences, item \in ListItems :
        remove_responsibility(id, "u1", item)
ListsAddTechnology ==
    \E id \in DOMAIN experiences, item \in ListItems :
        /\ Len(experiences[id].technologies) <= MaxListLen
        /\ add_technology(id, "u1", item)
ListsRemoveTechnology ==
    \E id \in DOMAIN experiences, item \in ListItems :
        remove_technology(id, "u1", item)

NextLists ==
    \/ ListsCreateProfile
    \/ ListsCreateExperience
    \/ ListsAddResponsibility
    \/ ListsRemoveResponsibility
    \/ ListsAddTechnology
    \/ ListsRemoveTechnology

SpecLists == Init /\ [][NextLists]_vars

(***************************************************************************)
(* SpecDuration: duration_text read on experiences whose dates range over  *)
(* MaxYears calendar years, months 1 to 12.                                *)
(***************************************************************************)
FirstYear == 2020
YearMonths == [year : FirstYear..(FirstYear + MaxYears - 1), month : 1..12]

DurationRead ==
    \E start_date \in {None} \cup {Some(d) : d \in YearMonths},
       end_date \in {None} \cup {Some(d) : d \in YearMonths},
       today \in {[year |-> FirstYear + MaxYears - 1, month |-> 12]} :
        read_duration_text(start_date, end_date, today)

NextDuration == DurationRead

SpecDuration == Init /\ [][NextDuration]_vars

(***************************************************************************)
(* SpecPublic: the profiles of two users, their visibility and text, and   *)
(* the public listing and search with limit 1..MaxPage, offset 0..MaxPage. *)
(***************************************************************************)
PublicProfileCreateInputs ==
    { NoFields,
      [visibility |-> "PUBLIC"],
      [visibility |-> "PUBLIC", headline |-> Some(<<Run("A", 1), Run("b", 1)>>)],
      [visibility |-> "FRIENDS", headline |-> Some(Text("a", 2))] }
PublicProfileUpdateInputs ==
    { [visibility |-> Some("PUBLIC")],
      [visibility |-> Some("PRIVATE")],
      [headline |-> Some(Text("a", 2))],
      [headline |-> None, location |-> Some(<<Run("a", 1), Run("B", 1)>>)] }
Queries == { <<"a", "b">>, <<"A", "A">>, <<"b", "b">> }

PublicCreateProfile ==
    /\ next_id <= MaxPublicIds
    /\ \E u \in Users, raw \in PublicProfileCreateInputs, sfx \in Suffixes :
          create_profile(u, raw, sfx)
PublicUpdateProfile ==
    \E id \in DOMAIN profiles, raw \in PublicProfileUpdateInputs :
        update_profile(id, profiles[id].user_id, raw)
PublicDeleteProfile == \E id \in DOMAIN profiles : delete_profile(id, profiles[id].user_id)
PublicList ==
    \E limit \in 1..MaxPage, offset \in 0..MaxPage : get_public_profiles(limit, offset)
PublicSearch ==
    \E q \in Queries, limit \in 1..MaxPage, offset \in 0..MaxPage :
        search_profiles(q, limit, offset)

NextPublic ==
    \/ PublicCreateProfile
    \/ PublicUpdateProfile
    \/ PublicDeleteProfile
    \/ PublicList
    \/ PublicSearch

SpecPublic == Init /\ [][NextPublic]_vars

(***************************************************************************)
(* SpecUpdates: partial updates of profiles, experiences and projects,     *)
(* with payloads of one or two fields, null values and a slug.             *)
(***************************************************************************)
UpdatesProfileCreateInputs ==
    { [headline |-> Some(X), location |-> Some(X)],
      [slug |-> Some(<<"a", "b", "c">>)] }
UpdatesProfileUpdateInputs ==
    { [headline |-> None],
      [visibility |-> Some("PUBLIC"), location |-> None],
      [visibility |-> None, headline |-> Some(X)],
      [slug |-> Some(<<"a", "b", "c">>), headline |-> Some(Text("y", 1))] }
UpdatesExperienceCreateInputs == { [start_date |-> 1, end_date |-> Some(2)] }
UpdatesExperienceUpdateInputs ==
    { [end_date |-> None, is_current |-> Some(TRUE)],
      [start_date |-> None, end_date |-> Some(3)] }
UpdatesProjectCreateInputs == { [name |-> "p", client |-> Some("c")] }
UpdatesProjectUpdateInputs ==
    { [client |-> None, name |-> Some("q")],
      [status |-> None, client |-> Some("d")] }

UpdatesCreateProfile ==
    /\ next_id <= MaxUpdateIds - 1
    /\ \E u \in Users, raw \in UpdatesProfileCreateInputs, sfx \in Suffixes :
          create_profile(u, raw, sfx)
UpdatesCreateExperience ==
    /\ next_id <= MaxUpdateIds
    /\ \E id \in DOMAIN profiles, raw \in UpdatesExperienceCreateInputs :
          create_experience(id, profiles[id].user_id, raw)
UpdatesCreateProject ==
    /\ next_id <= MaxUpdateIds
    /\ \E id \in DOMAIN profiles, raw \in UpdatesProjectCreateInputs :
          create_project(id, profiles[id].user_id, raw)
UpdatesUpdateProfile ==
    \E id \in DOMAIN profiles, raw \in UpdatesProfileUpdateInputs :
        update_profile(id, profiles[id].user_id, raw)
UpdatesUpdateExperience ==
    \E id \in DOMAIN experiences, raw \in UpdatesExperienceUpdateInputs :
        update_experience(id, ExperienceOwner(id)[1], raw)
UpdatesUpdateProject ==
    \E id \in DOMAIN projects, raw \in UpdatesProjectUpdateInputs :
        update_project(id, ProjectOwner(id)[1], raw)

NextUpdates ==
    \/ UpdatesCreateProfile
    \/ UpdatesCreateExperience
    \/ UpdatesCreateProject
    \/ UpdatesUpdateProfile
    \/ UpdatesUpdateExperience
    \/ UpdatesUpdateProject

SpecUpdates == Init /\ [][NextUpdates]_vars

(***************************************************************************)
(* SpecView: one profile of any visibility with experiences that tie on    *)
(* display_order, listed by its owner and by another user.                 *)
(***************************************************************************)
ViewProfileCreateInputs ==
    { NoFields, [visibility |-> "PUBLIC"], [visibility |-> "FRIENDS"] }
ViewExperienceCreateInputs ==
    { [start_date |-> 1],
      [start_date |-> 1, display_order |-> 5],
      [start_date |-> 2, display_order |-> 5] }

ViewCreateProfile ==
    /\ next_id <= 1
    /\ \E raw \in ViewProfileCreateInputs, sfx \in Suffixes :
          create_profile("u1", raw, sfx)
ViewCreateExperience ==
    /\ next_id <= MaxViewIds
    /\ \E id \in DOMAIN profiles, raw \in ViewExperienceCreateInputs :
          create_experience(id, "u1", raw)
ViewDeleteExperience == \E id \in DOMAIN experiences : delete_experience(id, "u1")
ViewListExperiences ==
    \E id \in 1..2, u \in Users : get_experiences_by_profile(id, u)

NextView ==
    \/ ViewCreateProfile
    \/ ViewCreateExperience
    \/ ViewDeleteExperience
    \/ ViewListExperiences

SpecView == Init /\ [][NextView]_vars

(***************************************************************************)
(* SpecReorder: the profiles of two users, each with experiences and       *)
(* projects, reordered by their owners with id lists that name records of  *)
(* the other profile, ids of no record, and only some of the children.     *)
(***************************************************************************)
ReorderCreateProfile ==
    /\ next_id <= 2
    /\ \E u \in Users, sfx \in Suffixes : create_profile(u, NoFields, sfx)
ReorderCreateExperience ==
    /\ next_id <= MaxReorderIds
    /\ \E id \in DOMAIN profiles, raw \in ExperienceCreateInputs :
          create_experience(id, profiles[id].user_id, raw)
ReorderCreateProject ==
    /\ next_id <= MaxReorderIds
    /\ \E id \in DOMAIN profiles, raw \in ProjectCreateInputs :
          create_project(id, profiles[id].user_id, raw)
ReorderReorderExperiences ==
    \E id \in DOMAIN profiles, ids \in IdLists(2..(MaxReorderIds + 1)) :
        reorder_experiences(id, profiles[id].user_id, ids)
ReorderReorderProjects ==
    \E id \in DOMAIN profiles, ids \in IdLists(2..(MaxReorderIds + 1)) :
        reorder_projects(id, profiles[id].user_id, ids)

NextReorder ==
    \/ ReorderCreateProfile
    \/ ReorderCreateExperience
    \/ ReorderCreateProject
    \/ ReorderReorderExperiences
    \/ ReorderReorderProjects

SpecReorder == Init /\ [][NextReorder]_vars

(***************************************************************************)
(* SpecListFrame: one profile with two experiences and the four list       *)
(* operations on them, with two items.                                     *)
(***************************************************************************)
ListFrameItems == {Item, OtherItem}

ListFrameCreateProfile ==
    /\ next_id <= 1
    /\ \E sfx \in Suffixes : create_profile("u1", [headline |-> Some(X)], sfx)
ListFrameCreateExperience ==
    /\ next_id <= MaxListFrameIds
    /\ \E id \in DOMAIN profiles, raw \in ExperienceCreateInputs :
          create_experience(id, "u1", raw)
ListFrameAddResponsibility ==
    \E id \in DOMAIN experiences, item \in ListFrameItems :
        add_responsibility(id, "u1", item)
ListFrameRemoveResponsibility ==
    \E id \in DOMAIN experiences, item \in ListFrameItems :
        remove_responsibility(id, "u1", item)
ListFrameAddTechnology ==
    \E id \in DOMAIN experiences, item \in ListFrameItems :
        add_technology(id, "u1", item)
ListFrameRemoveTechnology ==
    \E id \in DOMAIN experiences, item \in ListFrameItems :
        remove_technology(id, "u1", item)

NextListFrame ==
    \/ ListFrameCreateProfile
    \/ ListFrameCreateExperience
    \/ ListFrameAddResponsibility
    \/ ListFrameRemoveResponsibility
    \/ ListFrameAddTechnology
    \/ ListFrameRemoveTechnology

SpecListFrame == Init /\ [][NextListFrame]_vars

(***************************************************************************)
(* Two create_profile calls in flight at once.  While they run, last holds *)
(* both calls: where each one is in the handler, what it was called with,  *)
(* the slug it has settled on and, once it is done, how it ended.  Each    *)
(* call reads the profiles table twice (the user's profile, then the slug  *)
(* lookups) and then commits; the other call may commit between any two.   *)
(***************************************************************************)
Call(user_id, raw) ==
    [pc |-> "start", user_id |-> user_id, raw |-> raw, slug |-> None, result |-> None]

Racing(op) == last.op = op /\ last.result = "racing"
RaceOver == \A c \in 1..2 : last.arg[c].pc = "done"

Ended(c, result) ==
    last' = [last EXCEPT !.arg[c].pc = "done", !.arg[c].result = Some(result)]

\* create_profile of call c up to the existing-profile check
create_profile_check_user(c) ==
    LET call == last.arg[c] IN
    /\ Racing("create_profile") /\ call.pc = "start"
    /\ IF ~ProfileCreateValid(call.raw)
       THEN Ended(c, "ValidationError")
       ELSE IF \E p \in DOMAIN profiles : profiles[p].user_id = call.user_id
       THEN Ended(c, "ProfileAlreadyExistsError")
       ELSE last' = [last EXCEPT !.arg[c].pc = "user_checked"]
    /\ UNCHANGED <<profiles, experiences, projects, next_id>>

\* create_profile of call c from the slug check to the end of the uniqueness
\* loop
create_profile_check_slug(c, suffix) ==
    LET call == last.arg[c]
        profile_data == ProfileCreate(call.raw)
        generated == IF profile_data.slug = None
                     THEN generate_slug(None, None, suffix)
                     ELSE profile_data.slug[1]
    IN
    /\ Racing("create_profile") /\ call.pc = "user_checked"
    /\ IF profile_data.slug # None /\ SlugTaken(profile_data.slug[1])
       THEN Ended(c, "SlugAlreadyExistsError")
       ELSE last' = [last EXCEPT
                        !.arg[c].pc = "slug_checked",
                        !.arg[c].slug = Some(EnsureUniqueSlug(generated, generated, 1))]
    /\ UNCHANGED <<profiles, experiences, projects, next_id>>

\* The commit of call c with no unique constraint on the table.
create_profile_commit_unconstrained(c) ==
    LET call == last.arg[c]
        profile_data == ProfileCreate(call.raw)
        row == [id |-> next_id, user_id |-> call.user_id, slug |-> call.slug,
                headline |-> profile_data.headline,
                summary |-> profile_data.summary,
                location |-> profile_data.location,
                visibility |-> profile_data.visibility,
                completeness_score |-> 0]
    IN
    /\ Racing("create_profile") /\ call.pc = "slug_checked"
    /\ profiles' = Put(profiles, next_id, update_completeness(row, experiences))
    /\ next_id' = next_id + 1
    /\ Ended(c, "ok")
    /\ UNCHANGED <<experiences, projects>>

\* create_profile of call c from db.add on: the commit raises IntegrityError
\* when the row breaks a unique constraint, and the handler rolls back and
\* raises ProfileAlreadyExistsError.
create_profile_commit(c) ==
    LET call == last.arg[c]
        profile_data == ProfileCreate(call.raw)
        row == [id |-> next_id, user_id |-> call.user_id, slug |-> call.slug,
                headline |-> profile_data.headline,
                summary |-> profile_data.summary,
                location |-> profile_data.location,
                visibility |-> profile_data.visibility,
                completeness_score |-> 0]
    IN
    /\ Racing("create_profile") /\ call.pc = "slug_checked"
    /\ IF IntegrityOk(Put(profiles, next_id, row))
       THEN /\ profiles' = Put(profiles, next_id, update_completeness(row, experiences))
            /\ next_id' = next_id + 1
            /\ Ended(c, "ok")
            /\ UNCHANGED <<experiences, projects>>
       ELSE /\ Ended(c, "ProfileAlreadyExistsError")
            /\ UNCHANGED <<profiles, experiences, projects, next_id>>

(***************************************************************************)
(* SpecRace: pairs of create_profile calls, one pair after the other.      *)
(***************************************************************************)
RaceProfileCreateInputs ==
    { NoFields, [slug |-> Some(<<"a", "b", "c">>)], [headline |-> Some(X)] }

RaceBegin ==
    /\ Racing("create_profile") => RaceOver
    /\ next_id <= MaxRaceIds
    /\ \E u \in Users, v \in Users, raw \in RaceProfileCreateInputs,
          other \in RaceProfileCreateInputs :
          last' = Request("create_profile", "-", None,
                          <<Call(u, raw), Call(v, other)>>, "racing")
    /\ UNCHANGED <<profiles, experiences, projects, next_id>>
RaceCheckUser == \E c \in 1..2 : create_profile_check_user(c)
RaceCheckSlug == \E c \in 1..2, sfx \in Suffixes : create_profile_check_slug(c, sfx)
RaceCommit == \E c \in 1..2 : create_profile_commit(c)

NextRace ==
    \/ RaceBegin
    \/ RaceCheckUser
    \/ RaceCheckSlug
    \/ RaceCommit

SpecRace == Init /\ [][NextRace]_vars

(***************************************************************************)
(* Two reorder_experiences calls in flight at once, each in a session of   *)
(* its own.  A call loads the profile's experiences, assigns display_order *)
(* to the loaded objects and commits; the commit writes the rows whose     *)
(* display_order differs from the value the session loaded (the unit of    *)
(* work sends no UPDATE for an attribute set to the value it had).         *)
(***************************************************************************)
ReorderCall(profile_id, experience_ids) ==
    [pc |-> "start", profile_id |-> profile_id, ids |-> experience_ids,
     start |-> experiences, seen |-> None, result |-> None]

\* reorder_experiences of call c up to experience_map: the rows it loaded
reorder_experiences_read(c) ==
    LET call == last.arg[c] IN
    /\ Racing("reorder_experiences") /\ call.pc = "start"
    /\ IF Owner(call.profile_id) = None
       THEN Ended(c, "AuthenticationError")
       ELSE last' = [last EXCEPT
                        !.arg[c].pc = "read",
                        !.arg[c].seen =
                            Some([e \in ExperiencesOf(call.profile_id) |-> experiences[e]])]
    /\ UNCHANGED <<profiles, experiences, projects, next_id>>

\* The rows of call c's session after its assignment loop.
Assigned(call) ==
    ReorderExperiences(call.seen[1], DOMAIN call.seen[1], call.ids, 0)

\* The table after the UPDATEs of call c's commit.
Flushed(call) ==
    [e \in DOMAIN experiences |->
        IF /\ e \in DOMAIN call.seen[1]
           /\ Assigned(call)[e].display_order # call.seen[1][e].display_order
        THEN [experiences[e] EXCEPT !.display_order = Assigned(call)[e].display_order]
        ELSE experiences[e]]

\* The commit of call c behind a version check: it is refused when a row
\* was changed since the call loaded it.
reorder_experiences_commit_versioned(c) ==
    LET call == last.arg[c] IN
    /\ Racing("reorder_experiences") /\ call.pc = "read"
    /\ IF \E e \in DOMAIN call.seen[1] : experiences[e] # call.seen[1][e]
       THEN /\ Ended(c, "StaleDataError")
            /\ UNCHANGED <<profiles, experiences, projects, next_id>>
       ELSE /\ experiences' = Flushed(call)
            /\ Ended(c, "ok")
            /\ UNCHANGED <<profiles, projects, next_id>>

\* reorder_experiences of call c from the assignment loop to db.commit()
reorder_experiences_commit(c) ==
    LET call == last.arg[c] IN
    /\ Racing("reorder_experiences") /\ call.pc = "read"
    /\ experiences' = Flushed(call)
    /\ Ended(c, "ok")
    /\ UNCHANGED <<profiles, projects, next_id>>

(***************************************************************************)
(* SpecReorderRace: one profile, its experiences, and pairs of overlapping *)
(* reorder calls by the owner.                                             *)
(***************************************************************************)
ReorderRaceExperienceCreateInputs ==
    { [start_date |-> 1], [start_date |-> 1, display_order |-> 1] }

ReorderRaceCreateProfile ==
    /\ next_id <= 1
    /\ \E sfx \in Suffixes : create_profile("u1", NoFields, sfx)
ReorderRaceCreateExperience ==
    /\ next_id <= MaxReorderRaceIds
    /\ \E id \in DOMAIN profiles, raw \in ReorderRaceExperienceCreateInputs :
          create_experience(id, "u1", raw)
ReorderRaceBegin ==
    /\ Racing("reorder_experiences") => RaceOver
    /\ \E id \in DOMAIN profiles :
          \E ids \in Perms(ExperiencesOf(id)), other \in Perms(ExperiencesOf(id)) :
             /\ ids # <<>>
             /\ last' = Request("reorder_experiences", "u1", Owner(id),
                                <<ReorderCall(id, ids), ReorderCall(id, other)>>, "racing")
    /\ UNCHANGED <<profiles, experiences, projects, next_id>>
ReorderRaceRead == \E c \in 1..2 : reorder_experiences_read(c)
ReorderRaceCommit == \E c \in 1..2 : reorder_experiences_commit(c)

NextReorderRace ==
    \/ ReorderRaceCreateProfile
    \/ ReorderRaceCreateExperience
    \/ ReorderRaceBegin
    \/ ReorderRaceRead
    \/ ReorderRaceCommit

SpecReorderRace == Init /\ [][NextReorderRace]_vars

(***************************************************************************)
(* Two experience create or delete calls on one profile in flight at once  *)
(* (experience_service.py create_experience, delete_experience).  Each     *)
(* call commits its record change, then profile.update_completeness()      *)
(* reads the profile row and its experiences again (the first commit       *)
(* expired the loaded objects) and sets completeness_score, then the       *)
(* second commit writes the score if it differs from the value read.  The  *)
(* other call may commit between any two of these steps.                   *)
(***************************************************************************)
ExperienceCall(kind, profile_id, experience_id, raw) ==
    [pc |-> "start", kind |-> kind, profile_id |-> profile_id,
     experience_id |-> experience_id, raw |-> raw,
     loaded |-> None, score |-> None, result |-> None]

\* The row create_experience inserts for the payload raw.
ExperienceRow(profile_id, raw) ==
    LET experience_data == ExperienceCreate(raw)
        orders == {experiences[e].display_order : e \in ExperiencesOf(profile_id)}
        display_order == IF orders # {} THEN MaxOf(orders) + 1 ELSE 0
    IN  [id |-> next_id, profile_id |-> profile_id,
         start_date |-> experience_data.start_date,
         end_date |-> experience_data.end_date,
         is_current |-> experience_data.is_current,
         responsibilities |-> experience_data.responsibilities,
         technologies |-> experience_data.technologies,
         display_order |-> IF experience_data.display_order # 0
                           THEN experience_data.display_order
                           ELSE display_order]

\* Call c up to its first commit: db.add or db.delete, db.commit()
record_commit(c) ==
    LET call == last.arg[c] IN
    /\ Racing("create_or_delete_experience") /\ call.pc = "start"
    /\ IF call.kind = "create"
       THEN /\ experiences' = Put(experiences, next_id,
                                  ExperienceRow(call.profile_id, call.raw))
            /\ next_id' = next_id + 1
            /\ last' = [last EXCEPT !.arg[c].pc = "committed"]
            /\ UNCHANGED <<profiles, projects>>
       ELSE IF call.experience_id[1] \notin DOMAIN experiences
       THEN /\ Ended(c, "False")
            /\ UNCHANGED <<profiles, experiences, projects, next_id>>
       ELSE /\ experiences' = Drop(experiences, {call.experience_id[1]})
            /\ last' = [last EXCEPT !.arg[c].pc = "committed"]
            /\ UNCHANGED <<profiles, projects, next_id>>

\* profile.update_completeness() of call c: the score it read and the score
\* it computed from the rows committed at that moment.
recompute(c) ==
    LET call == last.arg[c]
        p == profiles[call.profile_id]
    IN
    /\ Racing("create_or_delete_experience") /\ call.pc = "committed"
    /\ last' = [last EXCEPT
                  !.arg[c].pc = "scored",
                  !.arg[c].loaded = Some(p.completeness_score),
                  !.arg[c].score =
                      Some(update_completeness(p, experiences).completeness_score)]
    /\ UNCHANGED <<profiles, experiences, projects, next_id>>

\* The second db.commit() of call c: an UPDATE of completeness_score when
\* the computed score differs from the one read.
score_commit(c) ==
    LET call == last.arg[c] IN
    /\ Racing("create_or_delete_experience") /\ call.pc = "scored"
    /\ profiles' = IF call.score # call.loaded
                   THEN [profiles EXCEPT
                           ![call.profile_id].completeness_score = call.score[1]]
                   ELSE profiles
    /\ Ended(c, "ok")
    /\ UNCHANGED <<experiences, projects, next_id>>

(***************************************************************************)
(* SpecScoreRace: one profile, its experiences, and pairs of overlapping   *)
(* experience create or delete calls by the owner.                         *)
(***************************************************************************)
ScoreRaceProfileCreateInputs == { NoFields, [headline |-> Some(X)] }
ScoreRaceExperienceCreateInputs == { [start_date |-> 1] }

ScoreRaceCalls(profile_id) ==
    { ExperienceCall("create", profile_id, None, raw) :
          raw \in ScoreRaceExperienceCreateInputs }
    \cup { ExperienceCall("delete", profile_id, Some(e), None) :
               e \in ExperiencesOf(profile_id) }

ScoreRaceCreateProfile ==
    /\ next_id <= 1
    /\ \E raw \in ScoreRaceProfileCreateInputs, sfx \in Suffixes :
          create_profile("u1", raw, sfx)
ScoreRaceCreateExperience ==
    /\ next_id <= MaxScoreRaceIds
    /\ Racing("create_or_delete_experience") => RaceOver
    /\ \E id \in DOMAIN profiles, raw \in ScoreRaceExperienceCreateInputs :
          create_experience(id, "u1", raw)
ScoreRaceBegin ==
    /\ Racing("create_or_delete_experience") => RaceOver
    /\ \E id \in DOMAIN profiles :
          \E one \in ScoreRaceCalls(id), other \in ScoreRaceCalls(id) :
             last' = Request("create_or_delete_experience", "u1", Owner(id),
                             <<one, other>>, "racing")
    /\ UNCHANGED <<profiles, experiences, projects, next_id>>
ScoreRaceRecordCommit ==
    /\ next_id <= MaxScoreRaceIds
    /\ \E c \in 1..2 : record_commit(c)
ScoreRaceRecompute == \E c \in 1..2 : recompute(c)
ScoreRaceScoreCommit == \E c \in 1..2 : score_commit(c)

NextScoreRace ==
    \/ ScoreRaceCreateProfile
    \/ ScoreRaceCreateExperience
    \/ ScoreRaceBegin
    \/ ScoreRaceRecordCommit
    \/ ScoreRaceRecompute
    \/ ScoreRaceScoreCommit

SpecScoreRace == Init /\ [][NextScoreRace]_vars

(***************************************************************************)
(* create_profile lookup by lookup: the handler up to the uniqueness loop, *)
(* each evaluation of the loop's condition (one query by slug), and the    *)
(* insert once a lookup finds no row.  The call in flight is kept in last: *)
(* the slug it started from, the slug it is about to look up, the counter  *)
(* and the number of lookups made so far.                                  *)
(***************************************************************************)
SlugLoopUsers == {"u1", "u2", "u3"}

\* create_profile up to "original_slug = profile.slug; counter = 1"
create_profile_enter_loop(user_id, raw, suffix) ==
    LET op == "create_profile"
        arg == [user_id |-> user_id, slug |-> Get(raw, "slug", None)]
        profile_data == ProfileCreate(raw)
        generated == IF profile_data.slug = None
                     THEN generate_slug(None, None, suffix)
                     ELSE profile_data.slug[1]
    IN
    IF ~ProfileCreateValid(raw)
    THEN Fail(op, user_id, None, arg, "ValidationError")
    ELSE IF user_id \notin SlugLoopUsers
    THEN Fail(op, user_id, None, arg, "AuthenticationError")
    ELSE IF \E p \in DOMAIN profiles : profiles[p].user_id = user_id
    THEN Fail(op, user_id, None, arg, "ProfileAlreadyExistsError")
    ELSE IF profile_data.slug # None /\ SlugTaken(profile_data.slug[1])
    THEN Fail(op, user_id, None, arg, "SlugAlreadyExistsError")
    ELSE /\ last' = Request(op, user_id, None,
                            [user_id |-> user_id, raw |-> raw,
                             original_slug |-> generated, slug |-> generated,
                             counter |-> 1, lookups |-> 0],
                            "looping")
         /\ UNCHANGED <<profiles, experiences, projects, next_id>>

\* The loop with a counter that advances by two.
slug_lookup_skipping ==
    /\ last.result = "looping"
    /\ last' = IF SlugTaken(last.arg.slug)
               THEN [last EXCEPT
                       !.arg.slug = last.arg.original_slug \o "-"
                                       \o ToString(last.arg.counter),
                       !.arg.counter = last.arg.counter + 2,
                       !.arg.lookups = last.arg.lookups + 1]
               ELSE [last EXCEPT !.arg.lookups = last.arg.lookups + 1,
                                 !.result = "unique"]
    /\ UNCHANGED <<profiles, experiences, projects, next_id>>

\* One evaluation of "while query(Profile).filter(slug == profile.slug).first()"
\* and, when a row is found, the loop body.
slug_lookup ==
    /\ last.result = "looping"
    /\ last' = IF SlugTaken(last.arg.slug)
               THEN [last EXCEPT
                       !.arg.slug = last.arg.original_slug \o "-"
                                       \o ToString(last.arg.counter),
                       !.arg.counter = last.arg.counter + 1,
                       !.arg.lookups = last.arg.lookups + 1]
               ELSE [last EXCEPT !.arg.lookups = last.arg.lookups + 1,
                                 !.result = "unique"]
    /\ UNCHANGED <<profiles, experiences, projects, next_id>>

\* create_profile after the loop: db.add, both commits.
create_profile_insert ==
    LET profile_data == ProfileCreate(last.arg.raw)
        row == [id |-> next_id, user_id |-> last.arg.user_id,
                slug |-> Some(last.arg.slug),
                headline |-> profile_data.headline,
                summary |-> profile_data.summary,
                location |-> profile_data.location,
                visibility |-> profile_data.visibility,
                completeness_score |-> 0]
    IN
    /\ last.result = "unique"
    /\ IF IntegrityOk(Put(profiles, next_id, row))
       THEN /\ profiles' = Put(profiles, next_id, update_completeness(row, experiences))
            /\ next_id' = next_id + 1
            /\ last' = [last EXCEPT !.result = "ok"]
            /\ UNCHANGED <<experiences, projects>>
       ELSE /\ last' = [last EXCEPT !.result = "ProfileAlreadyExistsError"]
            /\ UNCHANGED <<profiles, experiences, projects, next_id>>

(***************************************************************************)
(* SpecSlugLoop: three users create their profiles one call at a time,     *)
(* without a slug or with a slug that a generated one can run into.  The   *)
(* loop of a running call is always continued (weak fairness of its        *)
(* lookup): it is sequential code of one request.                          *)
(***************************************************************************)
SlugLoopProfileCreateInputs ==
    { NoFields,
      [slug |-> Some(<<"n", "o", "n", "e", "-", "1">>)],
      [slug |-> Some(<<"n", "o", "n", "e", "-", "2">>)] }

SlugLoopEnter ==
    /\ next_id <= MaxSlugLoopIds
    /\ last.result \notin {"looping", "unique"}
    /\ \E u \in SlugLoopUsers, raw \in SlugLoopProfileCreateInputs, sfx \in Suffixes :
          create_profile_enter_loop(u, raw, sfx)
SlugLoopLookup == slug_lookup
SlugLoopInsert == create_profile_insert

NextSlugLoop ==
    \/ SlugLoopEnter
    \/ SlugLoopLookup
    \/ SlugLoopInsert

SpecSlugLoop == Init /\ [][NextSlugLoop]_vars /\ WF_vars(SlugLoopLookup)

(***************************************************************************)
(* The token blacklist (core/security.py).  Time is counted in ticks of    *)
(* half a second, so that the truncation of the time to live to whole      *)
(* seconds shows.  The state of the blacklist is carried in last.arg: the  *)
(* clock, whether Redis can be reached, the expiry tick of each key, and   *)
(* for each token whether an add of it found Redis ("reachable") or every  *)
(* add of it fell in an outage ("outage").  A token is its name, whether   *)
(* it decodes, and its exp claim as a tick.                                *)
(***************************************************************************)
TicksPerSecond == 2
UndecodableTtl == 86400

Blacklist ==
    IF last.op \in {"tick", "redis", "add", "verify_token"} THEN last.arg
    ELSE [now |-> 0, up |-> TRUE, keys |-> [t \in {} |-> 0],
          added |-> [t \in {} |-> ""], token |-> None]

\* EXISTS blacklist:{token}: the key was set and has not run out
KeyExists(token) ==
    token \in DOMAIN Blacklist.keys /\ Blacklist.keys[token] > Blacklist.now

\* SETEX blacklist:{token} ttl "1", ttl in seconds
SetEx(token, ttl) ==
    [k \in DOMAIN Blacklist.keys \cup {token} |->
        IF k = token THEN Blacklist.now + ttl * TicksPerSecond ELSE Blacklist.keys[k]]

\* int(exp_timestamp - current_timestamp): truncation towards zero
TtlSeconds(token) ==
    IF token.exp >= Blacklist.now
    THEN (token.exp - Blacklist.now) \div TicksPerSecond
    ELSE 0 - ((Blacklist.now - token.exp) \div TicksPerSecond)

HowAdded(token) ==
    [k \in DOMAIN Blacklist.added \cup {token} |->
        IF k # token THEN Blacklist.added[k]
        ELSE IF Blacklist.up THEN "reachable"
        ELSE IF token \in DOMAIN Blacklist.added THEN Blacklist.added[token]
        ELSE "outage"]

BlacklistStep(op, arg, result) ==
    /\ last' = Request(op, "-", None, arg, result)
    /\ UNCHANGED <<profiles, experiences, projects, next_id>>

\* RedisTokenBlacklist.add
add(token) ==
    LET keys == IF ~Blacklist.up THEN Blacklist.keys
                ELSE IF ~token.decodes THEN SetEx(token, UndecodableTtl)
                ELSE IF TtlSeconds(token) > 0 THEN SetEx(token, TtlSeconds(token))
                ELSE Blacklist.keys
    IN BlacklistStep("add",
           [Blacklist EXCEPT !.keys = keys, !.added = HowAdded(token),
                             !.token = Some(token)],
           "None")

\* RedisTokenBlacklist.is_blacklisted
is_blacklisted(token) == IF Blacklist.up THEN KeyExists(token) ELSE FALSE

\* verify_token
verify_token(token) ==
    BlacklistStep("verify_token", [Blacklist EXCEPT !.token = Some(token)],
        IF is_blacklisted(token) THEN "InvalidTokenError: Token has been revoked"
        ELSE IF ~token.decodes THEN "InvalidTokenError"
        ELSE IF token.exp <= Blacklist.now THEN "ExpiredTokenError"
        ELSE "payload")

(***************************************************************************)
(* SpecBlacklist: two tokens, a clock, and Redis going down and coming     *)
(* back.                                                                   *)
(***************************************************************************)
Tokens ==
    { [name |-> "t", decodes |-> TRUE, exp |-> 2 * TicksPerSecond],
      [name |-> "g", decodes |-> FALSE, exp |-> 0] }

BlacklistTick ==
    /\ Blacklist.now < MaxTicks
    /\ BlacklistStep("tick", [Blacklist EXCEPT !.now = @ + 1, !.token = None], "ok")
BlacklistRedis ==
    BlacklistStep("redis", [Blacklist EXCEPT !.up = ~@, !.token = None], "ok")
BlacklistAdd == \E token \in Tokens : add(token)
BlacklistVerifyToken == \E token \in Tokens : verify_token(token)

NextBlacklist ==
    \/ BlacklistTick
    \/ BlacklistRedis
    \/ BlacklistAdd
    \/ BlacklistVerifyToken

SpecBlacklist == Init /\ [][NextBlacklist]_vars

(***************************************************************************)
(* The handlers commit twice: the change itself, then the recomputed       *)
(* completeness_score.  Here each commit is a step of its own; a request   *)
(* that has made its first commit is recorded with result "committed"      *)
(* until its second commit is made or fails.                               *)
(***************************************************************************)
\* create_profile up to its first commit (db.add, db.commit, db.refresh):
\* completeness_score holds the column default.
create_profile_first_commit(user_id, raw, suffix) ==
    IF \/ ~ProfileCreateValid(raw)
       \/ user_id \notin Users
       \/ \E p \in DOMAIN profiles : profiles[p].user_id = user_id
       \/ ProfileCreate(raw).slug # None /\ SlugTaken(ProfileCreate(raw).slug[1])
    THEN create_profile(user_id, raw, suffix)
    ELSE
        LET profile_data == ProfileCreate(raw)
            generated == IF profile_data.slug = None
                         THEN generate_slug(None, None, suffix)
                         ELSE profile_data.slug[1]
            slug == EnsureUniqueSlug(generated, generated, 1)
            row == [id |-> next_id, user_id |-> user_id, slug |-> Some(slug),
                    headline |-> profile_data.headline,
                    summary |-> profile_data.summary,
                    location |-> profile_data.location,
                    visibility |-> profile_data.visibility,
                    completeness_score |-> 0]
        IN
        /\ profiles' = Put(profiles, next_id, row)
        /\ next_id' = next_id + 1
        /\ last' = Request("create_profile", user_id, None,
                           [profile_id |-> next_id], "committed")
        /\ UNCHANGED <<experiences, projects>>

\* update_profile up to its first commit (setattr loop, db.commit)
update_profile_first_commit(profile_id, user_id, raw) ==
    IF \/ ~ProfileUpdateValid(raw)
       \/ Owner(profile_id) # Some(user_id)
       \/ ~NotNullOk(ProfileUpdate(raw), ProfileNotNull)
    THEN update_profile(profile_id, user_id, raw)
    ELSE /\ profiles' = Put(profiles, profile_id,
                            SetAttrs(profiles[profile_id], ProfileUpdate(raw), ProfileNotNull))
         /\ last' = Request("update_profile", user_id, Owner(profile_id),
                            [profile_id |-> profile_id], "committed")
         /\ UNCHANGED <<experiences, projects, next_id>>

\* create_experience up to its first commit (db.add, db.commit, db.refresh)
create_experience_first_commit(profile_id, user_id, raw) ==
    IF ~ExperienceCreateValid(raw) \/ Owner(profile_id) # Some(user_id)
    THEN create_experience(profile_id, user_id, raw)
    ELSE
        LET experience_data == ExperienceCreate(raw)
            orders == {experiences[e].display_order : e \in ExperiencesOf(profile_id)}
            display_order == IF orders # {} THEN MaxOf(orders) + 1 ELSE 0
            row == [id |-> next_id, profile_id |-> profile_id,
                    start_date |-> experience_data.start_date,
                    end_date |-> experience_data.end_date,
                    is_current |-> experience_data.is_current,
                    responsibilities |-> experience_data.responsibilities,
                    technologies |-> experience_data.technologies,
                    display_order |-> IF experience_data.display_order # 0
                                      THEN experience_data.display_order
                                      ELSE display_order]
        IN
        /\ experiences' = Put(experiences, next_id, row)
        /\ next_id' = next_id + 1
        /\ last' = Request("create_experience", user_id, Owner(profile_id),
                           [profile_id |-> profile_id], "committed")
        /\ UNCHANGED <<profiles, projects>>

\* delete_experience up to its first commit (db.delete, db.commit)
delete_experience_first_commit(experience_id, user_id) ==
    IF ExperienceOwner(experience_id) # Some(user_id)
    THEN delete_experience(experience_id, user_id)
    ELSE /\ experiences' = Drop(experiences, {experience_id})
         /\ last' = Request("delete_experience", user_id, ExperienceOwner(experience_id),
                            [profile_id |-> experiences[experience_id].profile_id],
                            "committed")
         /\ UNCHANGED <<profiles, projects, next_id>>

\* The second commit of the request in flight: profile.update_completeness(),
\* db.commit().
second_commit ==
    /\ last.result = "committed"
    /\ profiles' = Rescored(last.arg.profile_id, experiences)
    /\ last' = [last EXCEPT !.result = "ok"]
    /\ UNCHANGED <<experiences, projects, next_id>>

\* The second commit raises (the database refuses it or is gone): the request
\* ends in an error and the first commit stays.
second_commit_fails ==
    /\ last.result = "committed"
    /\ last' = [last EXCEPT !.result = "error"]
    /\ UNCHANGED <<profiles, experiences, projects, next_id>>

(***************************************************************************)
(* SpecCommits: one user's profile and experiences, one request at a time, *)
(* commit by commit.                                                       *)
(***************************************************************************)
CommitsProfileCreateInputs == { NoFields, [headline |-> Some(X)] }
CommitsProfileUpdateInputs ==
    { [headline |-> Some(X)], [headline |-> None], [visibility |-> None] }

CommitsCreateProfile ==
    /\ last.result # "committed"
    /\ next_id <= MaxCommitIds
    /\ \E raw \in CommitsProfileCreateInputs, sfx \in Suffixes :
          create_profile_first_commit("u1", raw, sfx)
CommitsUpdateProfile ==
    /\ last.result # "committed"
    /\ \E id \in DOMAIN profiles, raw \in CommitsProfileUpdateInputs :
          update_profile_first_commit(id, "u1", raw)
CommitsCreateExperience ==
    /\ last.result # "committed"
    /\ next_id <= MaxCommitIds
    /\ \E id \in DOMAIN profiles, raw \in ExperienceCreateInputs :
          create_experience_first_commit(id, "u1", raw)
CommitsDeleteExperience ==
    /\ last.result # "committed"
    /\ \E id \in DOMAIN experiences : delete_experience_first_commit(id, "u1")
CommitsSecondCommit == second_commit
CommitsSecondCommitFails == second_commit_fails

NextCommits ==
    \/ CommitsCreateProfile
    \/ CommitsUpdateProfile
    \/ CommitsCreateExperience
    \/ CommitsDeleteExperience
    \/ CommitsSecondCommit
    \/ CommitsSecondCommitFails

SpecCommits == Init /\ [][NextCommits]_vars

(***************************************************************************)
(* Properties of the profile store, checked under Spec.                    *)
(***************************************************************************)
CreatedBy(user_id) == {p \in DOMAIN profiles : profiles[p].user_id = user_id}

\* The step is a create_profile call that passed request validation.
CreateStep == last'.op = "create_profile" /\ last'.result # "ValidationError"

\* C1: no two stored profiles have the same user_id, and create_profile for a
\* user who already owns a profile fails with ProfileAlreadyExistsError and
\* leaves profiles, experiences and projects as they were.
C1_OneProfilePerUser ==
    [][ /\ \A a, b \in DOMAIN profiles' :
              a # b => profiles'[a].user_id # profiles'[b].user_id
        /\ (CreateStep /\ CreatedBy(last'.arg.user_id) # {})
              => (last'.result = "ProfileAlreadyExistsError" /\ store' = store) ]_vars

\* A second create_profile by a user whose profile is stored was refused.
C1_Witness ==
    /\ last.op = "create_profile"
    /\ last.result = "ProfileAlreadyExistsError"
    /\ CreatedBy(last.arg.user_id) # {}

\* C2: two distinct stored profiles never have the same slug, and a
\* create_profile without an explicit slug by a user who owns no profile
\* succeeds and stores a slug no other profile has, also when the generated
\* base is already in use.
C2_UniqueSlugs ==
    [][ /\ \A a, b \in DOMAIN profiles' :
              (a # b /\ profiles'[a].slug # None)
                 => profiles'[a].slug # profiles'[b].slug
        /\ (CreateStep /\ last'.arg.slug = None /\ CreatedBy(last'.arg.user_id) = {})
              => /\ last'.result = "ok"
                 /\ \E p \in DOMAIN profiles' \ DOMAIN profiles :
                       /\ profiles'[p].user_id = last'.arg.user_id
                       /\ profiles'[p].slug # None
                       /\ \A q \in DOMAIN profiles : profiles[q].slug # profiles'[p].slug
      ]_vars

\* Two profiles created without an explicit slug from the same generated base
\* are stored under different slugs.
C2_Witness ==
    /\ last.op = "create_profile" /\ last.result = "ok" /\ last.arg.slug = None
    /\ \E a, b \in DOMAIN profiles :
          profiles[a].slug = Some("none") /\ profiles[b].slug = Some("none-1")

\* The step is a validated create_profile call whose explicit slug is the slug
\* of a stored profile.
CreateWithTakenSlug ==
    /\ CreateStep
    /\ last'.arg.slug # None
    /\ \E q \in DOMAIN profiles : profiles[q].slug = Some(Join(last'.arg.slug[1]))

\* C3 as stated: create_profile with an explicit slug equal to the slug of an
\* existing profile returns SlugAlreadyExistsError and creates nothing.
C3_AsStated ==
    [][ CreateWithTakenSlug
          => (last'.result = "SlugAlreadyExistsError" /\ store' = store) ]_vars

\* C3: create_profile with an explicit slug equal to the slug of an existing
\* profile creates nothing and changes no stored record; it returns
\* SlugAlreadyExistsError when the caller owns no profile yet, and
\* ProfileAlreadyExistsError when the caller already owns one.
C3_TakenSlugRejected ==
    [][ CreateWithTakenSlug
          => /\ store' = store
             /\ last'.result = IF CreatedBy(last'.arg.user_id) = {}
                               THEN "SlugAlreadyExistsError"
                               ELSE "ProfileAlreadyExistsError" ]_vars

\* A user without a profile asked for a slug that a stored profile has.
C3_Witness ==
    /\ last.op = "create_profile"
    /\ last.result = "SlugAlreadyExistsError"
    /\ CreatedBy(last.arg.user_id) = {}
    /\ last.arg.slug # None
    /\ \E q \in DOMAIN profiles : profiles[q].slug = Some(Join(last.arg.slug[1]))

\* C8: every stored experience and every stored project refers to a stored
\* profile, and a successful delete_profile removes the profile together with
\* all experiences and projects that referred to it.
C8_DeleteCascades ==
    [][ /\ \A e \in DOMAIN experiences' : experiences'[e].profile_id \in DOMAIN profiles'
        /\ \A j \in DOMAIN projects' : projects'[j].profile_id \in DOMAIN profiles'
        /\ (last'.op = "delete_profile" /\ last'.result = "True")
              => \E p \in DOMAIN profiles :
                    /\ DOMAIN profiles' = DOMAIN profiles \ {p}
                    /\ \A e \in DOMAIN experiences' : experiences'[e].profile_id # p
                    /\ \A j \in DOMAIN projects' : projects'[j].profile_id # p
      ]_vars

\* A profile that had an experience and a project was deleted.
C8_Witness ==
    /\ last.op = "delete_profile" /\ last.result = "True"
    /\ last.arg.experiences > 0 /\ last.arg.projects > 0

(***************************************************************************)
(* Ownership, checked under SpecOwner.                                     *)
(***************************************************************************)
\* C7: a create, update, delete, reorder or list add/remove aimed at a profile
\* (or at an experience or project of a profile) whose user is not the caller
\* fails and leaves every profile, experience and project as it was; so only
\* calls by the owning user change them.
C7_OnlyOwnerMutates ==
    [][ /\ last'.foreign => (last'.result \notin {"ok", "True"} /\ store' = store)
        /\ store' # store => ~last'.foreign ]_vars

\* A call by a user who does not own the target was refused while the target
\* profile had an experience or a project.
C7_Witness ==
    /\ last.foreign
    /\ last.result \in {"AuthenticationError", "ProjectNotFoundError"}
    /\ \E p \in DOMAIN profiles : ExperiencesOf(p) \cup ProjectsOf(p) # {}

(***************************************************************************)
(* Completeness and visibility, checked under SpecScore.                   *)
(***************************************************************************)
ExperienceCount(p) == Cardinality(ExperiencesOf(p))

\* C4: the stored completeness_score of every profile is calculate_completeness
\* of its current headline, summary and number of experiences, after every
\* profile create/update and experience create/update/delete; a
\* completeness_score sent in a create or update payload has no effect.
C4_ScoreIsComputed ==
    \A p \in DOMAIN profiles :
        profiles[p].completeness_score =
            calculate_completeness(profiles[p].headline, profiles[p].summary,
                                   ExperienceCount(p))

\* An experience was deleted from a profile whose 150-character summary came
\* with completeness_score 100 in the payload; one experience is left and the
\* stored score is the computed 30, not 100.
C4_Witness ==
    /\ last.op = "delete_experience" /\ last.result = "True"
    /\ \E p \in DOMAIN profiles :
          /\ profiles[p].summary = Some(Long)
          /\ profiles[p].headline = None
          /\ ExperienceCount(p) = 1
          /\ profiles[p].completeness_score = 30

\* The score as C5 words it: lengths are those of the stored values.
StatedScore(headline, summary, n) ==
    Min(100,
        (IF headline # None /\ StrLen(headline[1]) > 0 THEN 10 ELSE 0)
        + (IF summary # None /\ StrLen(summary[1]) > 100 THEN 20 ELSE 0)
        + Min(30, 10 * n))

\* The score with lengths taken after trimming surrounding whitespace.
TrimmedScore(headline, summary, n) ==
    Min(100,
        (IF headline # None /\ StrLen(Strip(headline[1])) > 0 THEN 10 ELSE 0)
        + (IF summary # None /\ StrLen(Strip(summary[1])) > 100 THEN 20 ELSE 0)
        + Min(30, 10 * n))

\* C5 as stated: calculate_completeness is +10 for a present, non-empty
\* headline, +20 for a present summary longer than 100 characters, +10 per
\* experience up to 30, capped at 100.
C5_AsStated ==
    \A p \in DOMAIN profiles :
        calculate_completeness(profiles[p].headline, profiles[p].summary,
                               ExperienceCount(p))
          = StatedScore(profiles[p].headline, profiles[p].summary, ExperienceCount(p))

\* C5: calculate_completeness is +10 for a headline that is non-empty after
\* trimming whitespace, +20 for a summary longer than 100 characters after
\* trimming whitespace, +10 per experience up to 30, capped at 100; a headline
\* alone gives 10, a headline with a 150-character summary and four
\* experiences gives 60, and nothing gives 0.
C5_TrimmedFormula ==
    /\ \A p \in DOMAIN profiles :
          calculate_completeness(profiles[p].headline, profiles[p].summary,
                                 ExperienceCount(p))
            = TrimmedScore(profiles[p].headline, profiles[p].summary,
                           ExperienceCount(p))
    /\ calculate_completeness(Some(X), None, 0) = 10
    /\ calculate_completeness(Some(X), Some(Long), 4) = 60
    /\ calculate_completeness(None, None, 0) = 0

\* A profile with a headline, a 150-character summary and four experiences
\* is stored with score 60.
C5_Witness ==
    \E p \in DOMAIN profiles :
        /\ profiles[p].headline = Some(X)
        /\ profiles[p].summary = Some(Long)
        /\ ExperienceCount(p) = 4
        /\ profiles[p].completeness_score = 60

\* C6: can_view(profile, viewer) is true for every viewer, the anonymous one
\* included, when the profile is PUBLIC; when it is PRIVATE or FRIENDS it is
\* true only for the viewer who is the profile's user.  GET /profiles/{id}
\* answers accordingly.
C6_CanView ==
    /\ \A p \in DOMAIN profiles, v \in Viewers :
          can_view(profiles[p], v)
            <=> (profiles[p].visibility = "PUBLIC" \/ v = Some(profiles[p].user_id))
    /\ (last.op = "get_profile" /\ last.result = "ok")
          => \E p \in DOMAIN profiles :
                profiles[p].visibility = "PUBLIC" \/ last.arg = Some(profiles[p].user_id)
    /\ (last.op = "get_profile" /\ last.result = "Forbidden")
          => \E p \in DOMAIN profiles :
                profiles[p].visibility # "PUBLIC" /\ last.arg # Some(profiles[p].user_id)

\* An anonymous viewer was refused a FRIENDS profile.
C6_Witness ==
    /\ last.op = "get_profile" /\ last.result = "Forbidden" /\ last.arg = None
    /\ \E p \in DOMAIN profiles : profiles[p].visibility = "FRIENDS"

\* C15: fetching a profile by id or by slug never answers Forbidden: a
\* PRIVATE or FRIENDS profile fetched by someone other than its user gives
\* the same NotFound as an id or slug with no record.
C15_NoForbiddenOnFetch ==
    last.op \in {"get_profile", "get_profile_by_slug"} => last.result # "Forbidden"

(***************************************************************************)
(* Experience dates, checked under SpecDates.                              *)
(***************************************************************************)
\* C9: no stored experience has is_current = true together with an end_date,
\* after any successful create_experience or update_experience.
C9_CurrentHasNoEndDate ==
    \A e \in DOMAIN experiences :
        ~(experiences[e].is_current /\ experiences[e].end_date # None)

\* C10: whenever a stored experience has an end_date, it is strictly after
\* its start_date.
C10_EndAfterStart ==
    \A e \in DOMAIN experiences :
        experiences[e].end_date # None
            => experiences[e].end_date[1] > experiences[e].start_date

(***************************************************************************)
(* Display order, checked under SpecOrder.                                 *)
(***************************************************************************)
\* The step is a successful call of the reorder operation op whose id list is
\* a duplicate-free permutation of the profile's records in table tbl.
ReorderOfAll(op, tbl) ==
    /\ last'.op = op /\ last'.result = "ok"
    /\ last'.arg.ids \in
          Perms({r \in DOMAIN tbl : tbl[r].profile_id = last'.arg.profile_id})

\* C11: when the experiences of a profile are exactly the set S, whatever
\* their display_order values, reorder_experiences with a duplicate-free
\* permutation of S gives the i-th id (from 0) display_order len - i, and
\* listing the profile's experiences afterwards returns exactly that list.
C11_ExperienceReorderThenList ==
    [][ ReorderOfAll("reorder_experiences", experiences)
          => LET ids == last'.arg.ids IN
             /\ \A i \in 1..Len(ids) :
                   experiences'[ids[i]].display_order = Len(ids) - (i - 1)
             /\ ExperiencesInOrder(experiences', last'.arg.profile_id) = {ids} ]_vars

\* Three experiences, created as 2, 3, 4, were reordered to 4, 2, 3 and are
\* listed in that order.
C11_Witness ==
    /\ last.op = "reorder_experiences" /\ last.result = "ok"
    /\ last.arg.ids = <<4, 2, 3>>
    /\ ExperiencesOf(last.arg.profile_id) = {2, 3, 4}
    /\ ExperiencesInOrder(experiences, last.arg.profile_id) = {<<4, 2, 3>>}

\* C12: when the projects of a profile are exactly the set S, whatever their
\* display_order values, reorder_projects with a duplicate-free permutation
\* of S gives the i-th id (from 0) display_order i, and listing the profile's
\* projects afterwards returns exactly that list.
C12_ProjectReorderThenList ==
    [][ ReorderOfAll("reorder_projects", projects)
          => LET ids == last'.arg.ids IN
             /\ \A i \in 1..Len(ids) : projects'[ids[i]].display_order = i - 1
             /\ ProjectsInOrder(projects', last'.arg.profile_id) = {ids} ]_vars

\* Three projects, created as 2, 3, 4, were reordered to 4, 2, 3 and are
\* listed in that order.
C12_Witness ==
    /\ last.op = "reorder_projects" /\ last.result = "ok"
    /\ last.arg.ids = <<4, 2, 3>>
    /\ ProjectsOf(last.arg.profile_id) = {2, 3, 4}
    /\ ProjectsInOrder(projects, last.arg.profile_id) = {<<4, 2, 3>>}

(***************************************************************************)
(* Responsibility and technology lists, checked under SpecLists.           *)
(***************************************************************************)
\* The list an add or remove step works on, before and after the step.
ListField == IF last'.op \in {"add_technology", "remove_technology"}
             THEN "technologies" ELSE "responsibilities"
ListBefore == experiences[last'.arg.id][ListField]
ListAfter == experiences'[last'.arg.id][ListField]

Occurrences(list, v) == Cardinality({i \in 1..Len(list) : list[i] = v})

\* C13: add_technology and add_responsibility are idempotent: after an add
\* whose trimmed value is not empty the list holds that value exactly once
\* (so the same call made twice adds it once); the add changes nothing when
\* the trimmed value is empty or already in the list; remove_technology and
\* remove_responsibility of a value that is not in the list succeed and
\* leave the list as it was.
C13_AddIdempotent ==
    [][ /\ (last'.op \in {"add_technology", "add_responsibility"}
              /\ last'.result = "ok")
            => LET v == Strip(last'.arg.item) IN
               /\ (v = <<>> \/ InList(ListBefore, v)) => ListAfter = ListBefore
               /\ v # <<>> => Occurrences(ListAfter, v) = 1
        /\ (last'.op \in {"remove_technology", "remove_responsibility"}
              /\ last'.result = "ok"
              /\ ~InList(ListBefore, last'.arg.item))
            => ListAfter = ListBefore ]_vars

(***************************************************************************)
(* Duration text, checked under SpecDuration.                              *)
(***************************************************************************)
Unit(n, word) == ToString(n) \o " " \o word \o (IF n = 1 THEN "" ELSE "s")

\* C14: for a duration of m >= 1 months, duration_text is "<m> month(s)" when
\* m < 12, and otherwise "<y> year(s)" with y = m div 12, followed by
\* " <r> month(s)" only when r = m mod 12 is not 0, each unit singular exactly
\* when its number is 1; 1 gives "1 month", 13 gives "1 year 1 month" and 24
\* gives "2 years".
C14_DurationText ==
    (last.op = "duration_text" /\ last.arg.months # None)
      => LET m == last.arg.months[1] IN
         /\ m >= 1
         /\ last.result =
               IF m < 12 THEN Unit(m, "month")
               ELSE IF m % 12 = 0 THEN Unit(m \div 12, "year")
               ELSE Unit(m \div 12, "year") \o " " \o Unit(m % 12, "month")
         /\ m = 1 => last.result = "1 month"
         /\ m = 13 => last.result = "1 year 1 month"
         /\ m = 24 => last.result = "2 years"

\* duration_text was read on an experience of 13 months.
C14_Witness ==
    /\ last.op = "duration_text"
    /\ last.arg.months = Some(13)
    /\ last.result = "1 year 1 month"

(***************************************************************************)
(* Public listing and search, checked under SpecPublic.                    *)
(***************************************************************************)
\* C16: get_public_profiles and search_profiles return only profiles whose
\* visibility is PUBLIC; get_public_profiles returns the PUBLIC profiles
\* ordered by completeness_score descending, then created_at descending,
\* without the first offset of them and at most limit of them.
C16_PublicOnly ==
    /\ last.op \in {"get_public_profiles", "search_profiles"}
         => \A i \in 1..Len(last.arg.ids) :
               /\ last.arg.ids[i] \in DOMAIN profiles
               /\ profiles[last.arg.ids[i]].visibility = "PUBLIC"
    /\ last.op = "get_public_profiles"
         => LET ids == last.arg.ids
                public == {p \in DOMAIN profiles : profiles[p].visibility = "PUBLIC"}
                \* how many PUBLIC profiles come before p in the order
                rank(p) == Cardinality({q \in public \ {p} :
                              \/ profiles[q].completeness_score > profiles[p].completeness_score
                              \/ /\ profiles[q].completeness_score = profiles[p].completeness_score
                                 /\ q > p})
            IN /\ Len(ids) <= last.arg.limit
               /\ \A i \in 1..Len(ids) : rank(ids[i]) = last.arg.offset + i - 1
               /\ \A p \in public :
                     (rank(p) >= last.arg.offset /\ rank(p) < last.arg.offset + last.arg.limit)
                        => \E i \in 1..Len(ids) : ids[i] = p

\* With one PUBLIC profile and one that is not PUBLIC stored, the listing
\* with limit 2 from offset 0 returned the PUBLIC one alone.
C16_Witness ==
    /\ last.op = "get_public_profiles"
    /\ last.arg.offset = 0 /\ last.arg.limit = 2 /\ Len(last.arg.ids) = 1
    /\ \E p, q \in DOMAIN profiles :
          profiles[p].visibility = "PUBLIC" /\ profiles[q].visibility # "PUBLIC"

(***************************************************************************)
(* Commits, checked under SpecCommits.                                     *)
(***************************************************************************)
\* C17: no commit is partial: a commit that changes the stored profiles or
\* experiences leaves every profile with the completeness_score computed
\* from its headline, summary and experiences, so a change and its
\* recomputed score are committed together or not at all.
C17_NoPartialCommit ==
    [][ store' # store
          => \A p \in DOMAIN profiles' :
                profiles'[p].completeness_score =
                    calculate_completeness(profiles'[p].headline, profiles'[p].summary,
                        Cardinality({e \in DOMAIN experiences' :
                                        experiences'[e].profile_id = p})) ]_vars

(***************************************************************************)
(* Default display order, checked under SpecOrder.                         *)
(***************************************************************************)
\* C20: a created experience gets display_order = the profile's current
\* maximum + 1 (0 when the profile has none) when the input supplies no
\* display_order, and the supplied value, 0 included, when it supplies one.
C20_DisplayOrderOnCreate ==
    [][ (last'.op = "create_experience" /\ last'.result = "ok"
            /\ next_id' = next_id + 1)
          => LET stored == experiences'[next_id].display_order
                 orders == {experiences[e].display_order :
                               e \in ExperiencesOf(experiences'[next_id].profile_id)}
             IN IF "display_order" \in DOMAIN last'.arg
                THEN stored = last'.arg.display_order
                ELSE stored = (IF orders # {} THEN MaxOf(orders) + 1 ELSE 0) ]_vars

(***************************************************************************)
(* Updates, checked under SpecUpdates.                                     *)
(***************************************************************************)
\* C19: an update by the owner whose payload carries a slug that another
\* profile already uses ends in SlugAlreadyExistsError and leaves every
\* profile as it was: none of the payload's fields is committed.
C19_SlugCollisionAborts ==
    [][ \A id \in DOMAIN profiles, raw \in UpdatesProfileUpdateInputs :
          ( /\ update_profile(id, profiles[id].user_id, raw)
            /\ "slug" \in DOMAIN raw
            /\ \E q \in DOMAIN profiles \ {id} :
                  profiles[q].slug = Some(Join(raw["slug"][1])) )
          => /\ last'.result = "SlugAlreadyExistsError"
             /\ profiles' = profiles ]_vars

\* The row id of the table carries the payload's fields, a null as null,
\* every other field but the derived score is as before, and so is every
\* other row.
Patched(old, new, id, update_data, not_null) ==
    /\ DOMAIN new = DOMAIN old
    /\ \A q \in DOMAIN old \ {id} : new[q] = old[q]
    /\ \A f \in DOMAIN old[id] \ {"completeness_score"} :
          new[id][f] = IF f \notin DOMAIN update_data THEN old[id][f]
                       ELSE IF update_data[f] = None THEN None
                       ELSE IF f \in not_null THEN update_data[f][1]
                       ELSE update_data[f]

\* The table is as before but for the derived completeness_score.
SameButScore(old, new) ==
    /\ DOMAIN new = DOMAIN old
    /\ \A p \in DOMAIN old : \A f \in DOMAIN old[p] \ {"completeness_score"} :
          new[p][f] = old[p][f]

\* C18: an update of a profile, an experience or a project by its owner
\* applies exactly the fields of the payload, a null value as null; the
\* fields the payload leaves out keep their value (but for the derived
\* completeness_score) and no other record changes.
C18_UpdateAppliesPayload ==
    [][ /\ \A id \in DOMAIN profiles, raw \in UpdatesProfileUpdateInputs :
              update_profile(id, profiles[id].user_id, raw)
              => /\ Patched(profiles, profiles', id, ProfileUpdate(raw), ProfileNotNull)
                 /\ experiences' = experiences /\ projects' = projects
        /\ \A id \in DOMAIN experiences, raw \in UpdatesExperienceUpdateInputs :
              update_experience(id, ExperienceOwner(id)[1], raw)
              => /\ Patched(experiences, experiences', id, ExperienceUpdate(raw),
                            ExperienceNotNull)
                 /\ SameButScore(profiles, profiles') /\ projects' = projects
        /\ \A id \in DOMAIN projects, raw \in UpdatesProjectUpdateInputs :
              update_project(id, ProjectOwner(id)[1], raw)
              => /\ Patched(projects, projects', id, ProjectUpdate(raw), ProjectNotNull)
                 /\ profiles' = profiles /\ experiences' = experiences ]_vars

(***************************************************************************)
(* Project creation order, checked under SpecProjects.                     *)
(***************************************************************************)
\* C21: whatever creates, deletes and reorders came before, a created
\* project gets display_order = the number of projects the profile had, and
\* it is appended: the listing of the profile's projects ends with it.
C21_CreatedProjectIsAppended ==
    [][ \A id \in DOMAIN profiles, raw \in ProjectCreateInputs :
          (create_project(id, "u1", raw) /\ last'.result = "ok")
          => /\ projects'[next_id].display_order = Cardinality(ProjectsOf(id))
             /\ \A s \in ProjectsInOrder(projects', id) : s[Len(s)] = next_id ]_vars

(***************************************************************************)
(* Listing a profile's experiences, checked under SpecView.                *)
(***************************************************************************)
\* C22: listing the experiences of an existing profile raises
\* AuthenticationError, and returns no list, when the profile is not PUBLIC
\* and the caller is not its user; otherwise it returns every experience of
\* the profile once, by display_order descending and, on equal
\* display_order, by start_date descending.
C22_ListChecksAccess ==
    [][ \A id \in DOMAIN profiles, u \in Users :
          get_experiences_by_profile(id, u)
          => IF profiles[id].visibility # "PUBLIC" /\ profiles[id].user_id # u
             THEN last'.result = "AuthenticationError" /\ last'.arg = None
             ELSE LET ids == last'.arg.ids IN
                  /\ last'.result = "ok"
                  /\ {ids[i] : i \in 1..Len(ids)} = ExperiencesOf(id)
                  /\ Len(ids) = Cardinality(ExperiencesOf(id))
                  /\ \A i \in 1..(Len(ids) - 1) :
                        LET a == experiences[ids[i]]
                            b == experiences[ids[i + 1]]
                        IN \/ a.display_order > b.display_order
                           \/ /\ a.display_order = b.display_order
                              /\ a.start_date >= b.start_date ]_vars

\* Another user was refused the list of a FRIENDS profile that has two
\* experiences.
C22_Witness ==
    /\ last.op = "get_experiences_by_profile"
    /\ last.result = "AuthenticationError"
    /\ \E p \in DOMAIN profiles :
          /\ profiles[p].visibility = "FRIENDS"
          /\ Cardinality(ExperiencesOf(p)) = 2

(***************************************************************************)
(* What a reorder leaves alone, checked under SpecReorder.                 *)
(***************************************************************************)
\* Between tables old and new, only rows that are named in ids and are
\* children of the profile differ, and only in display_order.
ReorderFrame(old, new, profile_id, ids) ==
    /\ DOMAIN new = DOMAIN old
    /\ \A k \in DOMAIN old :
          IF (\E i \in 1..Len(ids) : ids[i] = k) /\ old[k].profile_id = profile_id
          THEN new[k] = [old[k] EXCEPT !.display_order = new[k].display_order]
          ELSE new[k] = old[k]

\* C23: a reorder of experiences or of projects by the owner changes only the
\* display_order of the records that are in the id list and are children of
\* the profile: ids of another profile's records and ids of no record are
\* ignored, children left out of the list keep their display_order, and no
\* other table changes.
C23_ReorderFrame ==
    [][ /\ (last'.op = "reorder_experiences" /\ last'.result = "ok")
            => /\ ReorderFrame(experiences, experiences',
                               last'.arg.profile_id, last'.arg.ids)
               /\ profiles' = profiles /\ projects' = projects
        /\ (last'.op = "reorder_projects" /\ last'.result = "ok")
            => /\ ReorderFrame(projects, projects',
                               last'.arg.profile_id, last'.arg.ids)
               /\ profiles' = profiles /\ experiences' = experiences ]_vars

\* Projects 3 and 4 belong to different profiles; the owner of project 3
\* reordered with the list 3, 4, and project 4 holds a display_order that
\* this reorder would not have given it.
C23_Witness ==
    /\ last.op = "reorder_projects" /\ last.result = "ok"
    /\ last.arg.ids = <<3, 4>>
    /\ {3, 4} \subseteq DOMAIN projects
    /\ projects[3].profile_id = last.arg.profile_id
    /\ projects[4].profile_id # last.arg.profile_id
    /\ projects[3].display_order = 0
    /\ projects[4].display_order = 0

(***************************************************************************)
(* What a list operation leaves alone, checked under SpecListFrame.        *)
(***************************************************************************)
ListOps ==
    {"add_responsibility", "remove_responsibility", "add_technology", "remove_technology"}

\* C24: add_responsibility, remove_responsibility, add_technology and
\* remove_technology change at most the one list they name on the one
\* experience they name: its other fields, every other experience, every
\* project and every profile, completeness_score included, stay as they were.
C24_ListOpFrame ==
    [][ last'.op \in ListOps
          => /\ profiles' = profiles
             /\ projects' = projects
             /\ DOMAIN experiences' = DOMAIN experiences
             /\ IF last'.result # "ok" THEN experiences' = experiences
                ELSE /\ \A e \in DOMAIN experiences \ {last'.arg.id} :
                          experiences'[e] = experiences[e]
                     /\ \A f \in DOMAIN experiences[last'.arg.id] \ {ListField} :
                          experiences'[last'.arg.id][f] = experiences[last'.arg.id][f] ]_vars

\* A technology was added to experience 3, which has a responsibility and
\* no other technology, while experience 2 has lists of its own.
C24_Witness ==
    /\ last.op = "add_technology" /\ last.result = "ok"
    /\ last.arg = [id |-> 3, item |-> Item]
    /\ {2, 3} \subseteq DOMAIN experiences
    /\ experiences[3].technologies = <<Item>>
    /\ experiences[3].responsibilities = <<OtherItem>>
    /\ experiences[2].technologies = <<OtherItem>>
    /\ experiences[2].responsibilities = <<>>
    /\ profiles[1].completeness_score = 30

(***************************************************************************)
(* Racing creates, checked under SpecRace.                                 *)
(***************************************************************************)
\* C25: while two create_profile calls interleave, no two profiles share a
\* user or a slug; a call ends "ok" or in ValidationError,
\* ProfileAlreadyExistsError or SlugAlreadyExistsError, never in a raw
\* storage error; and when both calls are for the same user, or settled on
\* the same slug after passing the checks, at most one of them ends "ok",
\* and exactly one when both passed every check before either committed.
C25_RacingCreates ==
    Racing("create_profile")
    => /\ IntegrityOk(profiles)
       /\ \A c \in 1..2 :
             last.arg[c].pc = "done"
             => last.arg[c].result \in
                    { Some("ok"), Some("ValidationError"),
                      Some("ProfileAlreadyExistsError"),
                      Some("SlugAlreadyExistsError") }
       /\ ( \/ last.arg[1].user_id = last.arg[2].user_id
            \/ last.arg[1].slug # None /\ last.arg[1].slug = last.arg[2].slug )
          => ~(last.arg[1].result = Some("ok") /\ last.arg[2].result = Some("ok"))
       /\ ( /\ RaceOver
            /\ last.arg[1].slug # None /\ last.arg[2].slug # None
            /\ \/ last.arg[1].user_id = last.arg[2].user_id
               \/ last.arg[1].slug = last.arg[2].slug )
          => \E c \in 1..2 : last.arg[c].result = Some("ok")

\* Two calls for different users settled on the same slug, so both passed
\* every check before either committed; one was persisted and the other
\* ended in ProfileAlreadyExistsError.
C25_Witness ==
    /\ Racing("create_profile") /\ RaceOver
    /\ last.arg[1].user_id # last.arg[2].user_id
    /\ last.arg[1].slug # None /\ last.arg[1].slug = last.arg[2].slug
    /\ {last.arg[1].result, last.arg[2].result}
          = {Some("ok"), Some("ProfileAlreadyExistsError")}
    /\ Cardinality(DOMAIN profiles) = 1

(***************************************************************************)
(* Overlapping reorders, checked under SpecReorderRace.                    *)
(***************************************************************************)
\* The table after call a and then call b, run one after the other on the
\* table the two calls started from.
OneAfterTheOther(a, b) ==
    LET children == {e \in DOMAIN a.start : a.start[e].profile_id = a.profile_id} IN
    ReorderExperiences(ReorderExperiences(a.start, children, a.ids, 0),
                       children, b.ids, 0)

\* Both calls are done and the table is the outcome of neither order.
LostUpdate ==
    /\ Racing("reorder_experiences") /\ RaceOver
    /\ experiences # OneAfterTheOther(last.arg[1], last.arg[2])
    /\ experiences # OneAfterTheOther(last.arg[2], last.arg[1])

\* C26: nothing stops an overlapping reorder: a reorder call that has loaded
\* its rows always commits with "ok", whatever the other call committed in
\* between, and only when the two calls overlapped (both loaded before
\* either committed, so both saw the starting table) can the final table
\* differ from running them one after the other in either order.
C26_ReorderUnguarded ==
    Racing("reorder_experiences")
    => /\ \A c \in 1..2 :
             last.arg[c].pc = "done" => last.arg[c].result = Some("ok")
       /\ LostUpdate
          => \A c \in 1..2 :
                last.arg[c].seen = Some([e \in DOMAIN last.arg[c].start |->
                                            last.arg[c].start[e]])

\* Two overlapping reorders of experiences 2 and 3, in opposite orders, left
\* a table that neither order of the two calls produces.
C26_Witness ==
    /\ LostUpdate
    /\ last.arg[1].ids = <<2, 3>>
    /\ last.arg[2].ids = <<3, 2>>

(***************************************************************************)
(* The token blacklist, checked under SpecBlacklist.                       *)
(***************************************************************************)
\* C27: add never raises; while Redis cannot be reached verify_token treats
\* every token as not revoked, and a token added only during outages is
\* accepted afterwards; while Redis can be reached, verify_token rejects
\* as revoked every token that was added while Redis could be reached and
\* has not expired.
C27_BlacklistFailOpen ==
    /\ last.op = "add" => last.result = "None"
    /\ last.op = "verify_token"
       => LET token == last.arg.token[1]
              live == token.decodes /\ last.arg.now < token.exp
              how == IF token \in DOMAIN last.arg.added
                     THEN last.arg.added[token] ELSE "never"
              revoked == last.result = "InvalidTokenError: Token has been revoked"
          IN /\ ~last.arg.up => ~revoked
             /\ (live /\ how = "outage") => last.result = "payload"
             /\ (live /\ how = "reachable" /\ last.arg.up) => revoked

(***************************************************************************)
(* Generated slugs, checked under Spec.                                    *)
(***************************************************************************)
\* C28: a profile created without a slug is stored with the slug made from
\* its user's display name (lowercased, other characters than letters,
\* digits, whitespace and hyphens dropped, whitespace runs turned into one
\* hyphen) followed by a hyphen and the random suffix; a profile created
\* with a slug is stored with that slug and no suffix.
C28_SlugFromName ==
    [][ \A u \in Users, raw \in ProfileCreateInputs, sfx \in Suffixes :
          (create_profile(u, raw, sfx) /\ last'.result = "ok")
          => profiles'[next_id].slug =
                IF "slug" \in DOMAIN raw
                THEN Some(Join(raw["slug"][1]))
                ELSE Some(generate_slug(Some([name |-> Some(UserName(u))]),
                                        Some(next_id), sfx)) ]_vars

\* C29: once two overlapping experience create or delete calls on one
\* profile have both completed, the profile's stored completeness_score is
\* the completeness function of its headline, summary and experience count.
C29_ScoreAfterRace ==
    (Racing("create_or_delete_experience") /\ RaceOver)
    => \A id \in DOMAIN profiles :
          profiles[id].completeness_score =
              calculate_completeness(profiles[id].headline, profiles[id].summary,
                                     Cardinality(ExperiencesOf(id)))

\* The k-th slug the uniqueness loop tries: base, base-1, base-2, ...
Candidate(base, k) == IF k = 0 THEN base ELSE base \o "-" \o ToString(k)

\* Some stored profile has this slug.
Stored(slug) == \E p \in DOMAIN profiles : profiles[p].slug = Some(slug)

\* C30: the uniqueness loop of create_profile terminates: it looks up the
\* base slug and then base-1, base-2, ... in increasing order, every slug it
\* has passed is stored, it stops at the first slug no stored profile uses
\* (the base slug or base-k for the smallest free k), and with n stored
\* profiles it makes at most n + 1 lookups.
C30_SlugLoopTerminates ==
    /\ [](last.result = "looping" =>
            /\ last.arg.slug = Candidate(last.arg.original_slug, last.arg.lookups)
            /\ last.arg.counter = last.arg.lookups + 1
            /\ \A j \in 0..(last.arg.lookups - 1) :
                  Stored(Candidate(last.arg.original_slug, j))
            /\ last.arg.lookups <= Cardinality(DOMAIN profiles))
    /\ [](last.result = "unique" =>
            /\ last.arg.slug = Candidate(last.arg.original_slug, last.arg.lookups - 1)
            /\ ~Stored(last.arg.slug)
            /\ \A j \in 0..(last.arg.lookups - 2) :
                  Stored(Candidate(last.arg.original_slug, j))
            /\ last.arg.lookups <= Cardinality(DOMAIN profiles) + 1)
    /\ (last.result = "looping" ~> last.result = "unique")

\* With "none" and "none-1" stored, the loop has made three lookups and
\* settled on "none-2".
C30_Witness ==
    /\ last.result = "unique"
    /\ last.arg.original_slug = "none"
    /\ last.arg.lookups = 3
    /\ last.arg.slug = "none-2"
    /\ Stored("none") /\ Stored("none-1")

====
